---------------------------- MODULE Spec2Model ----------------------------
(***************************************************************************)
(* A model of the four-track recorder engine of src/dsp/fourtrack.c: the   *)
(* transport state machine, the metronome and count-in, the per-block      *)
(* capture / playback / monitor pipeline and the MIDI routing policy.      *)
(*                                                                         *)
(* Every C function that changes a global is an operator from a state      *)
(* record (one field per global, named as in the source) to a state        *)
(* record; an entry point of the plugin API is an action that applies the  *)
(* operator to the current values of the variables and commits the result. *)
(***************************************************************************)
EXTENDS Integers, Sequences, FiniteSets, TLC

(***************************************************************************)
(* Program constants                                                       *)
(***************************************************************************)
NUM_TRACKS == 4
SAMPLE_RATE == 44100
FRAMES_PER_BLOCK == 128
NUM_CHANNELS == 2
MAX_RECORD_SECONDS == 300
MAX_PATCHES == 64
MAX_RECORD_SAMPLES == MAX_RECORD_SECONDS * SAMPLE_RATE
TRACK_BUFFER_SIZE == MAX_RECORD_SAMPLES * NUM_CHANNELS

\* Length in samples of one metronome click (the literal 200 of the source).
CLICK_SAMPLES == 200
\* Beats of count-in and beats per bar (the literal 4 of the source).
COUNTIN_BEATS == 4
BEATS_PER_BAR == 4
\* Tempo range and default, lower limit of record_seconds.
TEMPO_MIN == 20
TEMPO_MAX == 300
TEMPO_DEFAULT == 120
RECORD_SECONDS_MIN == 10
\* init_tracks: level 0.8f, held in thousandths.
LEVEL_DEFAULT == 800

Tracks == 0 .. (NUM_TRACKS - 1)

\* MIDI sources of plugin_api_v1.h, as tags.
\* The largest int.
INT_MAX == 2147483647

MOVE_MIDI_SOURCE_INTERNAL == "internal"
MOVE_MIDI_SOURCE_EXTERNAL == "external"
MOVE_MIDI_SOURCE_HOST == "host"

(***************************************************************************)
(* Bounds of the model                                                     *)
(***************************************************************************)
\* Render calls that advance the playhead are explored while the playhead
\* is within MaxBeatOffset frames of the last beat boundary ...
MaxBeatOffset == 256
\* ... and no call is explored that starts with the playhead beyond this.
MaxPlayhead == 1000000
\* Render calls during a count-in are explored for a count-in that began
\* with the playhead at most here.
MaxCountinStart == 256

(***************************************************************************)
(* C arithmetic on int                                                     *)
(***************************************************************************)
Abs(x) == IF x < 0 THEN -x ELSE x
\* a / b of C: truncation toward zero.
CDiv(a, b) ==
    IF (a >= 0) = (b > 0) THEN Abs(a) \div Abs(b) ELSE -(Abs(a) \div Abs(b))
\* a % b of C: the sign of the dividend.
CMod(a, b) == a - b * CDiv(a, b)
\* !x of C.
CNot(x) == IF x = 0 THEN 1 ELSE 0
Min(a, b) == IF a < b THEN a ELSE b
Max(a, b) == IF a > b THEN a ELSE b

(***************************************************************************)
(* The program's state                                                     *)
(***************************************************************************)
VARIABLES
    loaded,                  \* between plugin_on_load and plugin_on_unload
    g_tracks,                \* [Tracks -> track_t]
    g_selected_track,
    g_transport,             \* "STOPPED", "PLAYING", "RECORDING", "COUNTIN"
    g_playhead,
    g_loop_start,
    g_loop_end,
    g_loop_enabled,
    g_patches,               \* the first g_patch_count entries of g_patches
    g_metronome_enabled,
    g_tempo_bpm,
    g_samples_per_beat,
    g_countin_enabled,
    g_countin_counter,
    g_countin_total_samples,
    g_any_solo,
    g_midi_routing_mode,     \* "SELECTED", "SPLIT_CHANNELS"
    g_last_error,
    g_record_seconds,
    log,                     \* the last message the latest call gave to ft_log
    out,                     \* what the latest call was and the block it rendered
    midi_fwd,                \* the on_midi calls the latest call made on chains
    rb                       \* a plugin_render_block call in progress: its locals

vars == << loaded, g_tracks, g_selected_track, g_transport, g_playhead,
           g_loop_start, g_loop_end, g_loop_enabled, g_patches,
           g_metronome_enabled, g_tempo_bpm, g_samples_per_beat,
           g_countin_enabled, g_countin_counter, g_countin_total_samples,
           g_any_solo, g_midi_routing_mode, g_last_error, g_record_seconds,
           log, out, midi_fwd, rb >>

\* The globals as one record, the argument of the operators below.
State ==
    [ loaded |-> loaded, g_tracks |-> g_tracks,
      g_selected_track |-> g_selected_track, g_transport |-> g_transport,
      g_playhead |-> g_playhead, g_loop_start |-> g_loop_start,
      g_loop_end |-> g_loop_end, g_loop_enabled |-> g_loop_enabled,
      g_patches |-> g_patches, g_metronome_enabled |-> g_metronome_enabled,
      g_tempo_bpm |-> g_tempo_bpm, g_samples_per_beat |-> g_samples_per_beat,
      g_countin_enabled |-> g_countin_enabled,
      g_countin_counter |-> g_countin_counter,
      g_countin_total_samples |-> g_countin_total_samples,
      g_any_solo |-> g_any_solo, g_midi_routing_mode |-> g_midi_routing_mode,
      g_last_error |-> g_last_error, g_record_seconds |-> g_record_seconds,
      log |-> "" ]

\* The globals after a call or a statement, written back.
CommitGlobals(s) ==
    /\ loaded' = s.loaded
    /\ g_tracks' = s.g_tracks
    /\ g_selected_track' = s.g_selected_track
    /\ g_transport' = s.g_transport
    /\ g_playhead' = s.g_playhead
    /\ g_loop_start' = s.g_loop_start
    /\ g_loop_end' = s.g_loop_end
    /\ g_loop_enabled' = s.g_loop_enabled
    /\ g_patches' = s.g_patches
    /\ g_metronome_enabled' = s.g_metronome_enabled
    /\ g_tempo_bpm' = s.g_tempo_bpm
    /\ g_samples_per_beat' = s.g_samples_per_beat
    /\ g_countin_enabled' = s.g_countin_enabled
    /\ g_countin_counter' = s.g_countin_counter
    /\ g_countin_total_samples' = s.g_countin_total_samples
    /\ g_any_solo' = s.g_any_solo
    /\ g_midi_routing_mode' = s.g_midi_routing_mode
    /\ g_last_error' = s.g_last_error
    /\ g_record_seconds' = s.g_record_seconds
    /\ log' = s.log

\* The globals after a call that ran from its beginning to its end; a render
\* call in progress keeps its locals.
Commit(s) == CommitGlobals(s) /\ rb' = rb

\* No plugin_render_block call in progress.
RenderIdle ==
    [ pc |-> "idle", frames |-> 0, t |-> 0, i |-> 0, write_pos |-> 0,
      max_samples |-> 0, read_pos |-> 0, access |-> {} ]

\* No block rendered, no MIDI forwarded by the latest call.
NoBlock == [ call |-> "control" ]
NoMidi == {}

ft_log(s, msg) == [s EXCEPT !.log = msg]

(***************************************************************************)
(* Track buffers.  A buffer of TRACK_BUFFER_SIZE int16 is held as the      *)
(* function from the positions that hold a non-zero sample to the sample;  *)
(* calloc and memset(0) give the empty function.                           *)
(***************************************************************************)
EmptyBuffer == [pos \in {} |-> 0]

BufferAt(buffer, pos) == IF pos \in DOMAIN buffer THEN buffer[pos] ELSE 0

\* The static track_t of a zero-initialised g_tracks.
StaticTrack ==
    [ buffer |-> EmptyBuffer, length |-> 0, level |-> 0, pan |-> 0,
      muted |-> 0, solo |-> 0, armed |-> 0, monitoring |-> 0,
      patch_name |-> "", patch_path |-> "",
      chain_instance |-> FALSE, chain_patch_idx |-> 0 ]

Init ==
    /\ loaded = FALSE
    /\ g_tracks = [t \in Tracks |-> StaticTrack]
    /\ g_selected_track = 0
    /\ g_transport = "STOPPED"
    /\ g_playhead = 0
    /\ g_loop_start = 0
    /\ g_loop_end = 0
    /\ g_loop_enabled = 0
    /\ g_patches = << >>
    /\ g_metronome_enabled = 0
    /\ g_tempo_bpm = TEMPO_DEFAULT
    /\ g_samples_per_beat = 0
    /\ g_countin_enabled = 0
    /\ g_countin_counter = 0
    /\ g_countin_total_samples = 0
    /\ g_any_solo = 0
    /\ g_midi_routing_mode = "SELECTED"
    /\ g_last_error = ""
    /\ g_record_seconds = MAX_RECORD_SECONDS
    /\ log = ""
    /\ out = NoBlock
    /\ midi_fwd = NoMidi
    /\ rb = RenderIdle

(***************************************************************************)
(* Track management                                                        *)
(***************************************************************************)
\* memset of the whole buffer, length = 0; an index outside 0..3 returns.
clear_track(s, track) ==
    IF track < 0 \/ track >= NUM_TRACKS THEN s
    ELSE [s EXCEPT !.g_tracks[track].buffer = EmptyBuffer,
                   !.g_tracks[track].length = 0]

\* The fields init_tracks sets on every track.
InitTrack(i) ==
    [ buffer |-> EmptyBuffer, length |-> 0, level |-> LEVEL_DEFAULT, pan |-> 0,
      muted |-> 0, solo |-> 0, armed |-> 0,
      monitoring |-> IF i = 0 THEN 1 ELSE 0,
      patch_name |-> "", patch_path |-> "",
      chain_instance |-> FALSE, chain_patch_idx |-> -1 ]

init_tracks(s) == [s EXCEPT !.g_tracks = [i \in Tracks |-> InitTrack(i)]]

\* unload_chain_for_track and free(buffer), for every track.
free_tracks(s) ==
    [s EXCEPT !.g_tracks =
        [i \in Tracks |-> [s.g_tracks[i] EXCEPT !.chain_instance = FALSE,
                                                !.chain_patch_idx = -1,
                                                !.buffer = EmptyBuffer]]]

update_solo_state(s) ==
    [s EXCEPT !.g_any_solo =
        IF \E i \in Tracks : s.g_tracks[i].solo # 0 THEN 1 ELSE 0]

(***************************************************************************)
(* Transport                                                               *)
(***************************************************************************)
\* Mutant of stop_transport: stop also rewinds the playhead.
stop_transport_rewind(s) ==
    [s EXCEPT !.g_transport = "STOPPED", !.g_playhead = 0]

stop_transport(s) == [s EXCEPT !.g_transport = "STOPPED"]

start_playback(s) == [s EXCEPT !.g_transport = "PLAYING"]

any_track_armed(s) == \E i \in Tracks : s.g_tracks[i].armed # 0

\* Mutant of start_recording: the count-in is started whatever the transport
\* state, so that a punch-in counts in as well.
start_recording_countin_any(s) ==
    IF ~any_track_armed(s) THEN ft_log(s, "No track armed for recording")
    ELSE IF s.g_countin_enabled # 0
    THEN LET beat_pos == CMod(s.g_playhead, s.g_samples_per_beat)
             samples_to_next_beat ==
                 IF beat_pos = 0 THEN 0 ELSE s.g_samples_per_beat - beat_pos
         IN ft_log([s EXCEPT !.g_countin_counter = -samples_to_next_beat,
                             !.g_countin_total_samples =
                                 COUNTIN_BEATS * s.g_samples_per_beat,
                             !.g_transport = "COUNTIN"],
                   "Count-in started (4 beats)")
    ELSE ft_log([s EXCEPT !.g_transport = "RECORDING"],
                "Recording started (punch-in)")

\* Mutant of start_recording: no test that a track is armed.
start_recording_unarmed(s) ==
    IF s.g_countin_enabled # 0 /\ s.g_transport = "STOPPED"
    THEN LET beat_pos == CMod(s.g_playhead, s.g_samples_per_beat)
             samples_to_next_beat ==
                 IF beat_pos = 0 THEN 0 ELSE s.g_samples_per_beat - beat_pos
         IN ft_log([s EXCEPT !.g_countin_counter = -samples_to_next_beat,
                             !.g_countin_total_samples =
                                 COUNTIN_BEATS * s.g_samples_per_beat,
                             !.g_transport = "COUNTIN"],
                   "Count-in started (4 beats)")
    ELSE ft_log([s EXCEPT !.g_transport = "RECORDING"],
                "Recording started (punch-in)")

\* Mutant of start_recording: the count-in begins at counter 0 wherever the
\* playhead is in the beat.
start_recording_no_leadin(s) ==
    IF ~any_track_armed(s) THEN ft_log(s, "No track armed for recording")
    ELSE IF s.g_countin_enabled # 0 /\ s.g_transport = "STOPPED"
    THEN ft_log([s EXCEPT !.g_countin_counter = 0,
                          !.g_countin_total_samples =
                              COUNTIN_BEATS * s.g_samples_per_beat,
                          !.g_transport = "COUNTIN"],
                "Count-in started (4 beats)")
    ELSE ft_log([s EXCEPT !.g_transport = "RECORDING"],
                "Recording started (punch-in)")

\* Mutant of start_recording: a count-in of five beats.
start_recording_five_beats(s) ==
    IF ~any_track_armed(s) THEN ft_log(s, "No track armed for recording")
    ELSE IF s.g_countin_enabled # 0 /\ s.g_transport = "STOPPED"
    THEN LET beat_pos == CMod(s.g_playhead, s.g_samples_per_beat)
             samples_to_next_beat ==
                 IF beat_pos = 0 THEN 0 ELSE s.g_samples_per_beat - beat_pos
         IN ft_log([s EXCEPT !.g_countin_counter = -samples_to_next_beat,
                             !.g_countin_total_samples =
                                 (COUNTIN_BEATS + 1) * s.g_samples_per_beat,
                             !.g_transport = "COUNTIN"],
                   "Count-in started (4 beats)")
    ELSE ft_log([s EXCEPT !.g_transport = "RECORDING"],
                "Recording started (punch-in)")

start_recording(s) ==
    IF ~any_track_armed(s) THEN ft_log(s, "No track armed for recording")
    ELSE IF s.g_countin_enabled # 0 /\ s.g_transport = "STOPPED"
    THEN LET beat_pos == CMod(s.g_playhead, s.g_samples_per_beat)
             samples_to_next_beat ==
                 IF beat_pos = 0 THEN 0 ELSE s.g_samples_per_beat - beat_pos
         IN ft_log([s EXCEPT !.g_countin_counter = -samples_to_next_beat,
                             !.g_countin_total_samples =
                                 COUNTIN_BEATS * s.g_samples_per_beat,
                             !.g_transport = "COUNTIN"],
                   "Count-in started (4 beats)")
    ELSE ft_log([s EXCEPT !.g_transport = "RECORDING"],
                "Recording started (punch-in)")

\* Mutant of finish_countin: the playhead is not moved to the beat.
finish_countin_nosnap(s) ==
    ft_log([s EXCEPT !.g_countin_counter = 0,
                     !.g_countin_total_samples = 0,
                     !.g_transport = "RECORDING"],
           "Count-in complete, recording at beat boundary")

\* Mutant of finish_countin: the count-in begins again instead of ending.
finish_countin_again(s) ==
    ft_log([s EXCEPT !.g_countin_counter = 0], "Count-in started (4 beats)")

finish_countin(s) ==
    LET beat_pos == CMod(s.g_playhead, s.g_samples_per_beat)
        snapped ==
            IF s.g_samples_per_beat > 0 /\ beat_pos # 0
            THEN s.g_playhead + (s.g_samples_per_beat - beat_pos)
            ELSE s.g_playhead
    IN ft_log([s EXCEPT !.g_playhead = snapped,
                        !.g_countin_counter = 0,
                        !.g_countin_total_samples = 0,
                        !.g_transport = "RECORDING"],
              "Count-in complete, recording at beat boundary")

\* Mutant of toggle_recording: a record command while Recording stops the
\* transport.
toggle_recording_stops(s) ==
    IF s.g_transport = "RECORDING"
    THEN ft_log([s EXCEPT !.g_transport = "STOPPED"], "Stopped recording")
    ELSE start_recording(s)

toggle_recording(s) ==
    IF s.g_transport = "RECORDING"
    THEN ft_log([s EXCEPT !.g_transport = "PLAYING"], "Stopped recording")
    ELSE start_recording(s)

(***************************************************************************)
(* Metronome                                                               *)
(***************************************************************************)
\* Mutant of update_metronome_timing: the quotient rounded to the nearest
\* integer.
update_metronome_timing_rounded(s) ==
    [s EXCEPT !.g_samples_per_beat =
        CDiv(2 * SAMPLE_RATE * 60 + s.g_tempo_bpm, 2 * s.g_tempo_bpm)]

update_metronome_timing(s) ==
    [s EXCEPT !.g_samples_per_beat = CDiv(SAMPLE_RATE * 60, s.g_tempo_bpm)]

(***************************************************************************)
(* Chain integration and the patch catalogue.  The chain module and the    *)
(* patch directory are outside the program: what they answer is an input   *)
(* of the call that asks.                                                  *)
(***************************************************************************)
\* load_chain_for_track: attach says whether dlopen, the v2 init and
\* create_instance all succeeded.
load_chain_for_track(s, t, attach) ==
    IF attach
    THEN [s EXCEPT !.g_tracks[t].chain_instance = TRUE,
                   !.g_tracks[t].chain_patch_idx = -1]
    ELSE s

\* load_chain_patch_for_track: found is the index at which the chain lists
\* the track's patch_name, or -1 (also when the chain gives no patch count).
\* The operator gives the state; the result is LoadChainPatchResult.
LoadChainPatchResult(s, t, found) ==
    IF ~s.g_tracks[t].chain_instance THEN -1
    ELSE IF found < 0 THEN -1 ELSE 0

load_chain_patch_for_track(s, t, found) ==
    IF LoadChainPatchResult(s, t, found) = 0
    THEN [s EXCEPT !.g_tracks[t].chain_patch_idx = found]
    ELSE s

\* strcasecmp on the names of the model's patch directory.
FoldedRank(name) ==
    CASE name = "Bass" -> 1
      [] name = "line in" -> 2
      [] name = "Line In" -> 2
      [] name = "Pad" -> 3
      [] OTHER -> 4
strcasecmp(a, b) == FoldedRank(a) - FoldedRank(b)

\* The exchange sort of scan_patches: for i, for j > i, swap when
\* g_patches[i] > g_patches[j].
RECURSIVE SortPatches(_, _, _)
SortPatches(ps, i, j) ==
    IF i >= Len(ps) THEN ps
    ELSE IF j > Len(ps) THEN SortPatches(ps, i + 1, i + 2)
    ELSE IF strcasecmp(ps[i].name, ps[j].name) > 0
         THEN SortPatches([ps EXCEPT ![i] = ps[j], ![j] = ps[i]], i, j + 1)
         ELSE SortPatches(ps, i, j + 1)

\* scan_patches: listing is what readdir yields, in its order.
scan_patches(s, listing) ==
    LET kept == SubSeq(listing, 1, Min(Len(listing), MAX_PATCHES))
    IN ft_log([s EXCEPT !.g_patches = SortPatches(kept, 1, 2)], "Found patches")

\* find_patch_by_name: a 1-based position in g_patches, or -1.
find_patch_by_name(s, name) ==
    IF \E i \in 1 .. Len(s.g_patches) : s.g_patches[i].name = name
    THEN CHOOSE i \in 1 .. Len(s.g_patches) :
            /\ s.g_patches[i].name = name
            /\ \A k \in 1 .. (i - 1) : s.g_patches[k].name # name
    ELSE -1

\* load_default_patches: chain[t] = [attach, found] is the chain module's
\* answer for track t.
RECURSIVE LoadDefaultFrom(_, _, _, _)
LoadDefaultFrom(s, i, linein_idx, chain) ==
    IF i >= NUM_TRACKS THEN s
    ELSE IF ~chain[i].attach
    THEN LoadDefaultFrom(ft_log(s, "failed to create chain instance"),
                         i + 1, linein_idx, chain)
    ELSE LET a == load_chain_for_track(s, i, TRUE)
             n == [a EXCEPT
                     !.g_tracks[i].patch_name = s.g_patches[linein_idx].name,
                     !.g_tracks[i].patch_path = s.g_patches[linein_idx].path]
             r == LoadChainPatchResult(n, i, chain[i].found)
             l == load_chain_patch_for_track(n, i, chain[i].found)
         IN LoadDefaultFrom(IF r = 0 THEN ft_log(l, "Line In loaded") ELSE l,
                            i + 1, linein_idx, chain)

load_default_patches(s, chain) ==
    LET linein_idx == find_patch_by_name(s, "Line In")
    IN IF linein_idx < 0
       THEN ft_log(s, "Line In patch not found, tracks will start empty")
       ELSE LoadDefaultFrom(s, 0, linein_idx, chain)

(***************************************************************************)
(* plugin_on_load, plugin_on_unload                                        *)
(***************************************************************************)
plugin_on_load(s, listing, chain) ==
    LET a == init_tracks(s)
        b == update_metronome_timing([a EXCEPT !.g_tempo_bpm = TEMPO_DEFAULT])
        c == scan_patches(b, listing)
        d == load_default_patches(c, chain)
    IN ft_log([d EXCEPT !.loaded = TRUE], "Four Track module loaded")

plugin_on_unload(s) ==
    ft_log([free_tracks(s) EXCEPT !.loaded = FALSE],
           "Four Track module unloaded")

(***************************************************************************)
(* plugin_set_param, one operator per key.  A value parsed by atoi is the  *)
(* integer atoi gives; an optional value is << >> when NULL or empty and   *)
(* <<n>> otherwise; a "t:v" value is <<t, v>>, or << >> when sscanf does   *)
(* not parse two fields.                                                   *)
(***************************************************************************)
InRange(track) == track >= 0 /\ track < NUM_TRACKS

\* Mutant of set_select_track: the index is stored without the range test.
set_select_track_unchecked(s, track) ==
    ft_log([s EXCEPT !.g_selected_track = track], "Selected track")

set_select_track(s, track) ==
    IF InRange(track)
    THEN ft_log([s EXCEPT !.g_selected_track = track], "Selected track")
    ELSE s

set_toggle_arm(s, val) ==
    LET track == IF val = << >> THEN s.g_selected_track ELSE val[1]
    IN IF InRange(track)
       THEN LET n == [s EXCEPT !.g_tracks[track].armed =
                                   CNot(s.g_tracks[track].armed)]
            IN ft_log(n, IF n.g_tracks[track].armed # 0
                         THEN "Track armed" ELSE "Track disarmed")
       ELSE s

set_toggle_monitoring(s, val) ==
    LET track == IF val = << >> THEN s.g_selected_track ELSE val[1]
    IN IF InRange(track)
       THEN LET n == [s EXCEPT !.g_tracks[track].monitoring =
                                   CNot(s.g_tracks[track].monitoring)]
            IN ft_log(n, IF n.g_tracks[track].monitoring # 0
                         THEN "Track monitoring on" ELSE "Track monitoring off")
       ELSE s

set_track_level(s, val) ==
    IF Len(val) = 2 /\ InRange(val[1])
    THEN [s EXCEPT !.g_tracks[val[1]].level = val[2]]
    ELSE s

set_track_pan(s, val) ==
    IF Len(val) = 2 /\ InRange(val[1])
    THEN [s EXCEPT !.g_tracks[val[1]].pan = val[2]]
    ELSE s

set_track_mute(s, track) ==
    IF InRange(track)
    THEN [s EXCEPT !.g_tracks[track].muted = CNot(s.g_tracks[track].muted)]
    ELSE s

set_track_solo(s, track) ==
    IF InRange(track)
    THEN update_solo_state(
             [s EXCEPT !.g_tracks[track].solo = CNot(s.g_tracks[track].solo)])
    ELSE s

set_clear_track(s, track) ==
    IF InRange(track)
    THEN ft_log(clear_track(s, track), "Cleared track")
    ELSE s

set_transport(s, val) ==
    CASE val = "play" -> start_playback(s)
      [] val = "stop" -> stop_transport(s)
      [] val = "record" -> toggle_recording(s)
      [] OTHER -> s

set_goto_start(s) == ft_log([s EXCEPT !.g_playhead = 0], "Jumped to start")

set_goto_end(s) ==
    LET track_length == s.g_tracks[s.g_selected_track].length
        n == IF InRange(s.g_selected_track) /\ track_length > 0
             THEN [s EXCEPT !.g_playhead = CDiv(track_length, NUM_CHANNELS)]
             ELSE s
    IN ft_log(n, "Jumped to end of track")

\* Mutant of set_jump_bars: a jump back past the start is not held at 0.
set_jump_bars_unclamped(s, bars) ==
    LET samples_per_bar == CDiv(SAMPLE_RATE * 60 * BEATS_PER_BAR, s.g_tempo_bpm)
    IN ft_log([s EXCEPT !.g_playhead = s.g_playhead + bars * samples_per_bar],
              "Jumped bars")

set_jump_bars(s, bars) ==
    LET samples_per_bar == CDiv(SAMPLE_RATE * 60 * BEATS_PER_BAR, s.g_tempo_bpm)
        jump_samples == bars * samples_per_bar
        moved == s.g_playhead + jump_samples
    IN ft_log([s EXCEPT !.g_playhead = IF moved < 0 THEN 0 ELSE moved],
              "Jumped bars")

\* Mutant of set_tempo: only the lower bound is applied.
set_tempo_low_only(s, bpm) ==
    LET low == IF bpm < TEMPO_MIN THEN TEMPO_MIN ELSE bpm
    IN update_metronome_timing([s EXCEPT !.g_tempo_bpm = low])

set_tempo(s, bpm) ==
    LET low == IF bpm < TEMPO_MIN THEN TEMPO_MIN ELSE bpm
        clamped == IF low > TEMPO_MAX THEN TEMPO_MAX ELSE low
    IN update_metronome_timing([s EXCEPT !.g_tempo_bpm = clamped])

set_metronome(s, val) == [s EXCEPT !.g_metronome_enabled = val]

set_countin(s, val) ==
    ft_log([s EXCEPT !.g_countin_enabled = val],
           IF val # 0 THEN "Count-in enabled" ELSE "Count-in disabled")

set_midi_routing(s, val) ==
    IF val = "split"
    THEN ft_log([s EXCEPT !.g_midi_routing_mode = "SPLIT_CHANNELS"],
                "MIDI routing: split by channel")
    ELSE ft_log([s EXCEPT !.g_midi_routing_mode = "SELECTED"],
                "MIDI routing: all to selected track")

set_toggle_midi_routing(s) ==
    IF s.g_midi_routing_mode = "SELECTED"
    THEN ft_log([s EXCEPT !.g_midi_routing_mode = "SPLIT_CHANNELS"],
                "MIDI routing: split by channel")
    ELSE ft_log([s EXCEPT !.g_midi_routing_mode = "SELECTED"],
                "MIDI routing: all to selected track")

\* Mutant of set_loop_enabled: the loop region is set to the selected take.
set_loop_enabled_region(s, val) ==
    [s EXCEPT !.g_loop_enabled = val,
              !.g_loop_end = s.g_tracks[s.g_selected_track].length
                                \div NUM_CHANNELS]

set_loop_enabled(s, val) == [s EXCEPT !.g_loop_enabled = val]

\* load_patch: patch_idx counts from 0 as in the source; chain = [attach,
\* found] is the chain module's answer for the selected track.
set_load_patch(s, patch_idx, chain) ==
    IF ~(patch_idx >= 0 /\ patch_idx < Len(s.g_patches)) THEN s
    ELSE
    LET t == s.g_selected_track
        patch == s.g_patches[patch_idx + 1]
        cleared == [s EXCEPT !.g_last_error = ""]
    IN IF ~cleared.g_tracks[t].chain_instance /\ ~chain.attach
       THEN ft_log([cleared EXCEPT
                       !.g_last_error = "Failed to create chain instance"],
                   "failed to create chain instance")
       ELSE
       LET a == IF cleared.g_tracks[t].chain_instance THEN cleared
                ELSE load_chain_for_track(cleared, t, TRUE)
           n == [a EXCEPT !.g_tracks[t].patch_name = patch.name]
           result == LoadChainPatchResult(n, t, chain.found)
           l == load_chain_patch_for_track(n, t, chain.found)
       IN IF result = 0
          THEN ft_log([l EXCEPT !.g_tracks[t].patch_name = patch.name,
                                !.g_tracks[t].patch_path = patch.path],
                      "loaded patch")
          ELSE IF result = -2
          THEN ft_log([l EXCEPT !.g_last_error = "in use on another track"],
                      "already in use on another track (v1 plugin)")
          ELSE ft_log([l EXCEPT !.g_last_error = "Failed to load"],
                      "failed to load")

set_clear_patch(s, track_idx) ==
    IF InRange(track_idx)
    THEN ft_log([s EXCEPT !.g_tracks[track_idx].patch_name = "",
                          !.g_tracks[track_idx].patch_path = "",
                          !.g_tracks[track_idx].chain_patch_idx = -1],
                "patch cleared")
    ELSE s

set_clear_error(s) == [s EXCEPT !.g_last_error = ""]

set_toggle_mute(s, track) ==
    IF InRange(track)
    THEN LET n == [s EXCEPT !.g_tracks[track].muted =
                                CNot(s.g_tracks[track].muted)]
         IN ft_log(n, IF n.g_tracks[track].muted # 0
                      THEN "Track muted" ELSE "Track unmuted")
    ELSE s

set_record_seconds(s, secs) ==
    IF secs >= RECORD_SECONDS_MIN /\ secs <= MAX_RECORD_SECONDS
    THEN ft_log([s EXCEPT !.g_record_seconds = secs],
                "Record time limit set")
    ELSE s

(***************************************************************************)
(* plugin_set_param: the chain of strcmp(key, ...) tests.  val of          *)
(* load_patch is << patch_idx, chain >>; a key that matches none changes   *)
(* nothing.                                                                *)
(***************************************************************************)
plugin_set_param(s, key, val) ==
    CASE key = "select_track" -> set_select_track(s, val)
      [] key = "toggle_arm" -> set_toggle_arm(s, val)
      [] key = "toggle_monitoring" -> set_toggle_monitoring(s, val)
      [] key = "track_level" -> set_track_level(s, val)
      [] key = "track_pan" -> set_track_pan(s, val)
      [] key = "track_mute" -> set_track_mute(s, val)
      [] key = "track_solo" -> set_track_solo(s, val)
      [] key = "clear_track" -> set_clear_track(s, val)
      [] key = "transport" -> set_transport(s, val)
      [] key = "goto_start" -> set_goto_start(s)
      [] key = "goto_end" -> set_goto_end(s)
      [] key = "jump_bars" -> set_jump_bars(s, val)
      [] key = "tempo" -> set_tempo(s, val)
      [] key = "metronome" -> set_metronome(s, val)
      [] key = "countin" -> set_countin(s, val)
      [] key = "midi_routing" -> set_midi_routing(s, val)
      [] key = "toggle_midi_routing" -> set_toggle_midi_routing(s)
      [] key = "loop_enabled" -> set_loop_enabled(s, val)
      [] key = "load_patch" -> set_load_patch(s, val[1], val[2])
      [] key = "clear_patch" -> set_clear_patch(s, val)
      [] key = "clear_error" -> set_clear_error(s)
      [] key = "toggle_mute" -> set_toggle_mute(s, val)
      [] key = "record_seconds" -> set_record_seconds(s, val)
      [] OTHER -> s

(***************************************************************************)
(* plugin_get_param: the text written to the caller's buffer, for the keys *)
(* that answer from a global (numbers as numbers).  The query changes no   *)
(* state.                                                                  *)
(***************************************************************************)
get_countin_beats(s) ==
    LET remaining_samples == s.g_countin_total_samples - s.g_countin_counter
    IN IF s.g_transport = "COUNTIN" /\ s.g_samples_per_beat > 0
          /\ remaining_samples > 0
       THEN CDiv(remaining_samples + s.g_samples_per_beat - 1,
                 s.g_samples_per_beat)
       ELSE 0

plugin_get_param(s, key) ==
    CASE key = "selected_track" -> s.g_selected_track
      [] key = "any_armed" -> IF any_track_armed(s) THEN 1 ELSE 0
      [] key = "transport" ->
           (CASE s.g_transport = "STOPPED" -> "stopped"
              [] s.g_transport = "PLAYING" -> "playing"
              [] s.g_transport = "RECORDING" -> "recording"
              [] s.g_transport = "COUNTIN" -> "countin")
      [] key = "countin" -> s.g_countin_enabled
      [] key = "countin_beats" -> get_countin_beats(s)
      [] key = "tempo" -> s.g_tempo_bpm
      [] key = "metronome" -> s.g_metronome_enabled
      [] key = "loop_enabled" -> s.g_loop_enabled
      [] key = "record_seconds" -> s.g_record_seconds
      [] key = "max_record_seconds" -> MAX_RECORD_SECONDS

(***************************************************************************)
(* plugin_on_midi                                                          *)
(***************************************************************************)
\* Mutant of midi_target: external events go to the selected track in split
\* mode too.
midi_target_selected(s, status, source) == s.g_selected_track

\* The target track of an event, or -1 for target_track == NULL.
midi_target(s, status, source) ==
    IF source = MOVE_MIDI_SOURCE_INTERNAL THEN s.g_selected_track
    ELSE IF source = MOVE_MIDI_SOURCE_EXTERNAL
    THEN IF s.g_midi_routing_mode = "SPLIT_CHANNELS"
         THEN LET channel == status % 16
              IN IF channel < NUM_TRACKS THEN channel ELSE -1
         ELSE s.g_selected_track
    ELSE s.g_selected_track

\* The on_midi calls made on chain instances: one per track in the set.
plugin_on_midi(s, status, len, source) ==
    IF len < 1 THEN {}
    ELSE LET target == midi_target(s, status, source)
         IN IF target >= 0 /\ s.g_tracks[target].chain_instance
            THEN {target}
            ELSE {}

(***************************************************************************)
(* generate_metronome_click.  The loop over the block's samples in closed  *)
(* form: the first k samples are count-in samples (k = 0 outside the       *)
(* count-in), finish_countin runs at sample k when k < frames, and the     *)
(* samples from k on take their beat position from the playhead.  The      *)
(* click of a sample is its beat position when a click is written there    *)
(* and -1 when none is.                                                    *)
(***************************************************************************)
CountinSamples(s, frames) ==
    IF s.g_transport # "COUNTIN" THEN 0
    ELSE IF s.g_countin_counter >= s.g_countin_total_samples THEN 0
    ELSE Min(frames, s.g_countin_total_samples - s.g_countin_counter)

\* Mutant of generate_metronome_click: the count-in clicks only with the
\* metronome switched on.
generate_metronome_click_if_enabled(s, frames) ==
    IF s.g_samples_per_beat <= 0 \/ s.g_transport = "STOPPED"
    THEN [state |-> s, click |-> [i \in 0 .. (frames - 1) |-> -1]]
    ELSE
    LET k == CountinSamples(s, frames)
        counted == [s EXCEPT !.g_countin_counter = s.g_countin_counter + k]
        after == IF s.g_transport = "COUNTIN" /\ k < frames
                 THEN finish_countin(counted)
                 ELSE counted
        beat_pos(i) ==
            IF i < k
            THEN IF s.g_countin_counter + i >= 0
                 THEN CMod(s.g_countin_counter + i, s.g_samples_per_beat)
                 ELSE -1
            ELSE IF after.g_transport \in {"PLAYING", "RECORDING"}
                 THEN CMod(after.g_playhead + i, s.g_samples_per_beat)
                 ELSE -1
    IN [state |-> after,
        click |-> [i \in 0 .. (frames - 1) |->
                     IF s.g_metronome_enabled # 0 /\ beat_pos(i) >= 0
                        /\ beat_pos(i) < CLICK_SAMPLES
                     THEN beat_pos(i) ELSE -1]]

generate_metronome_click(s, frames) ==
    IF s.g_samples_per_beat <= 0 \/ s.g_transport = "STOPPED"
    THEN [state |-> s, click |-> [i \in 0 .. (frames - 1) |-> -1]]
    ELSE
    LET k == CountinSamples(s, frames)
        counted == [s EXCEPT !.g_countin_counter = s.g_countin_counter + k]
        after == IF s.g_transport = "COUNTIN" /\ k < frames
                 THEN finish_countin(counted)
                 ELSE counted
        beat_pos(i) ==
            IF i < k
            THEN IF s.g_countin_counter + i >= 0
                 THEN CMod(s.g_countin_counter + i, s.g_samples_per_beat)
                 ELSE -1
            ELSE IF after.g_transport \in {"PLAYING", "RECORDING"}
                 THEN CMod(after.g_playhead + i, s.g_samples_per_beat)
                 ELSE -1
        should_click(i) == IF i < k THEN TRUE ELSE s.g_metronome_enabled # 0
    IN [state |-> after,
        click |-> [i \in 0 .. (frames - 1) |->
                     IF should_click(i) /\ beat_pos(i) >= 0
                        /\ beat_pos(i) < CLICK_SAMPLES
                     THEN beat_pos(i) ELSE -1]]

(***************************************************************************)
(* plugin_render_block                                                     *)
(***************************************************************************)
\* What a chain renders is outside the program: sample j of the block of
\* track t in a call whose live input is `live` (0: silence).
LiveSample(live, t, j) == IF live = 0 THEN 0 ELSE live * 1024 + t * 256 + j

\* chain_buffers[t] after the first loop: zero without a chain instance.
chain_buffer(s, t, frames, live) ==
    [j \in 0 .. (2 * frames - 1) |->
        IF s.g_tracks[t].chain_instance THEN LiveSample(live, t, j) ELSE 0]

\* Mutant of CaptureFrames: the loop stops one frame before the capacity.
CaptureFrames_short(write_pos, frames, max_samples) ==
    Cardinality({i \in 0 .. (frames - 1) : write_pos + 2 * i < max_samples - 2})

\* The capture loop's iterations, for (i = 0; i < frames && write_pos <
\* max_samples - 1; i++) with write_pos += 2 in the body: the test fails for
\* good once it fails, so the loop runs for the i that pass it.
CaptureFrames(write_pos, frames, max_samples) ==
    Cardinality({i \in 0 .. (frames - 1) : write_pos + 2 * i < max_samples - 1})

\* Mutant of capture_track: a track left out of the mix is not captured.
capture_track_mixed_only(s, t, frames, cb) ==
    LET track == s.g_tracks[t]
        write_pos == s.g_playhead * NUM_CHANNELS
        max_samples == s.g_record_seconds * SAMPLE_RATE * NUM_CHANNELS
        n == Cardinality({i \in 0 .. (frames - 1) :
                             write_pos + 2 * i < max_samples - 1})
        written == write_pos .. (write_pos + 2 * n - 1)
        new_length == (s.g_playhead + frames) * NUM_CHANNELS
    IN IF s.g_transport = "RECORDING" /\ track.armed # 0
          /\ track.muted = 0 /\ (s.g_any_solo = 0 \/ track.solo # 0)
       THEN [track EXCEPT
               !.buffer = [p \in (DOMAIN track.buffer \ written)
                                 \cup {q \in written : cb[q - write_pos] # 0} |->
                             IF p \in written THEN cb[p - write_pos]
                             ELSE track.buffer[p]],
               !.length = IF new_length > track.length
                             /\ new_length <= max_samples
                          THEN new_length ELSE track.length]
       ELSE track

\* Mutant of capture_track: an armed track is captured during the count-in
\* as well.
capture_track_during_countin(s, t, frames, cb) ==
    LET track == s.g_tracks[t]
        write_pos == s.g_playhead * NUM_CHANNELS
        max_samples == s.g_record_seconds * SAMPLE_RATE * NUM_CHANNELS
        n == CaptureFrames(write_pos, frames, max_samples)
        written == write_pos .. (write_pos + 2 * n - 1)
        keep == {p \in DOMAIN track.buffer : p \notin written}
        set == {p \in written : cb[p - write_pos] # 0}
        new_length == (s.g_playhead + frames) * NUM_CHANNELS
    IN IF s.g_transport \in {"RECORDING", "COUNTIN"} /\ track.armed # 0
       THEN [track EXCEPT
               !.buffer = [p \in keep \cup set |->
                             IF p \in written THEN cb[p - write_pos]
                             ELSE track.buffer[p]],
               !.length = IF new_length > track.length
                             /\ new_length <= max_samples
                          THEN new_length ELSE track.length]
       ELSE track

\* Mutant of capture_track: the length is set to the end of the block.
capture_track_truncating(s, t, frames, cb) ==
    LET track == s.g_tracks[t]
        write_pos == s.g_playhead * NUM_CHANNELS
        max_samples == s.g_record_seconds * SAMPLE_RATE * NUM_CHANNELS
        n == CaptureFrames(write_pos, frames, max_samples)
        written == write_pos .. (write_pos + 2 * n - 1)
        keep == {p \in DOMAIN track.buffer : p \notin written}
        set == {p \in written : cb[p - write_pos] # 0}
        new_length == (s.g_playhead + frames) * NUM_CHANNELS
    IN IF s.g_transport = "RECORDING" /\ track.armed # 0
       THEN [track EXCEPT
               !.buffer = [p \in keep \cup set |->
                             IF p \in written THEN cb[p - write_pos]
                             ELSE track.buffer[p]],
               !.length = IF new_length <= max_samples
                          THEN new_length ELSE track.length]
       ELSE track

\* Mutant of capture_track: the block is appended at the track's length.
capture_track_appended(s, t, frames, cb) ==
    LET track == s.g_tracks[t]
        write_pos == track.length
        max_samples == s.g_record_seconds * SAMPLE_RATE * NUM_CHANNELS
        n == CaptureFrames(write_pos, frames, max_samples)
        written == write_pos .. (write_pos + 2 * n - 1)
        keep == {p \in DOMAIN track.buffer : p \notin written}
        set == {p \in written : cb[p - write_pos] # 0}
        new_length == (s.g_playhead + frames) * NUM_CHANNELS
    IN IF s.g_transport = "RECORDING" /\ track.armed # 0
       THEN [track EXCEPT
               !.buffer = [p \in keep \cup set |->
                             IF p \in written THEN cb[p - write_pos]
                             ELSE track.buffer[p]],
               !.length = IF new_length > track.length
                             /\ new_length <= max_samples
                          THEN new_length ELSE track.length]
       ELSE track

\* The recording branch for one track: the buffer and the length after it.
capture_track(s, t, frames, cb) ==
    LET track == s.g_tracks[t]
        write_pos == s.g_playhead * NUM_CHANNELS
        max_samples == s.g_record_seconds * SAMPLE_RATE * NUM_CHANNELS
        n == CaptureFrames(write_pos, frames, max_samples)
        written == write_pos .. (write_pos + 2 * n - 1)
        keep == {p \in DOMAIN track.buffer : p \notin written}
        set == {p \in written : cb[p - write_pos] # 0}
        new_length == (s.g_playhead + frames) * NUM_CHANNELS
    IN IF s.g_transport = "RECORDING" /\ track.armed # 0
       THEN [track EXCEPT
               !.buffer = [p \in keep \cup set |->
                             IF p \in written THEN cb[p - write_pos]
                             ELSE track.buffer[p]],
               !.length = IF new_length > track.length
                             /\ new_length <= max_samples
                          THEN new_length ELSE track.length]
       ELSE track

\* if (track->muted) continue; if (g_any_solo && !track->solo) continue;
mix_skipped(s, track) ==
    track.muted # 0 \/ (s.g_any_solo # 0 /\ track.solo = 0)

\* Mutant of PlaybackLoop: the read position never wraps; at the track's
\* length the loop breaks.
PlaybackLoop_nowrap(s, track, read_pos, frames) ==
    [i \in 1 .. Cardinality({k \in 0 .. (frames - 1) :
                                read_pos + 2 * k < track.length}) |->
        read_pos + 2 * (i - 1)]

\* The playback loop of one track: the buffer positions of the frames it
\* mixes, in order (the left sample; the right one is the next position).
\* The first `direct` frames read on from read_pos; at read_pos >= length
\* the loop breaks, or with looping on reads from loop_start * 2 again and
\* again, `cycle` frames each time round.
PlaybackLoop(s, track, read_pos, frames) ==
    LET direct == Cardinality({i \in 0 .. (frames - 1) :
                                  read_pos + 2 * i < track.length})
        restart == s.g_loop_start * NUM_CHANNELS
        cycle == Max(1, Cardinality({i \in 0 .. (frames - 1) :
                                        restart + 2 * i < track.length}))
    IN IF s.g_loop_enabled # 0 /\ s.g_loop_end > 0
       THEN [i \in 1 .. frames |->
               IF i <= direct THEN read_pos + 2 * (i - 1)
               ELSE restart + 2 * ((i - 1 - direct) % cycle)]
       ELSE [i \in 1 .. direct |-> read_pos + 2 * (i - 1)]

\* Mutant of playback_reads: the track being recorded is played back too.
playback_reads_while_recorded(s, track, frames) ==
    LET is_playing_back == s.g_transport \in {"PLAYING", "RECORDING"}
    IN IF ~mix_skipped(s, track) /\ track.length > 0 /\ is_playing_back
       THEN PlaybackLoop(s, track, s.g_playhead * NUM_CHANNELS, frames)
       ELSE << >>

playback_reads(s, track, frames) ==
    LET is_recording_this_track ==
            s.g_transport = "RECORDING" /\ track.armed # 0
        is_playing_back == s.g_transport \in {"PLAYING", "RECORDING"}
    IN IF ~mix_skipped(s, track) /\ track.length > 0 /\ is_playing_back
          /\ ~is_recording_this_track
       THEN PlaybackLoop(s, track, s.g_playhead * NUM_CHANNELS, frames)
       ELSE << >>

\* Mutant of pan_l: the left gain falls off to both sides of the centre.
pan_l_centre_dip(pan) == 1000 - Abs(pan)

\* The pan law of the playback and the monitor branch.  level and pan are
\* floats, held in thousandths: pan_l = (pan < 0) ? 1.0f : 1.0f - pan and
\* pan_r = (pan > 0) ? 1.0f : 1.0f + pan.
pan_l(pan) == IF pan < 0 THEN 1000 ELSE 1000 - pan
pan_r(pan) == IF pan > 0 THEN 1000 ELSE 1000 + pan

\* (int32_t)(sample * level * pan_gain): the product cut toward zero.  The
\* levels and pans of the specifications (0, 0.5, 0.8, 1 and 0, +-0.5, +-1)
\* give the product the float arithmetic gives.
MixSample(sample, level, gain) == CDiv(sample * level * gain, 1000000)

\* What the track adds to frame i of the mix from a pair of samples.
MixPair(track, l, r) ==
    << MixSample(l, track.level, pan_l(track.pan)),
       MixSample(r, track.level, pan_r(track.pan)) >>

\* Mutant of monitor_mixed: a track is monitored only while the transport
\* rolls.
monitor_mixed_rolling(s, track) ==
    LET has_chain == track.chain_instance /\ track.chain_patch_idx >= 0
    IN ~mix_skipped(s, track) /\ track.monitoring # 0 /\ has_chain
       /\ s.g_transport \in {"PLAYING", "RECORDING"}

\* Whether the monitor branch mixes the track's live block.
monitor_mixed(s, track) ==
    LET has_chain == track.chain_instance /\ track.chain_patch_idx >= 0
    IN ~mix_skipped(s, track) /\ track.monitoring # 0 /\ has_chain

\* g_playhead * NUM_CHANNELS in int.  Above INT_MAX the product is undefined:
\* a build that multiplies in 32 bits yields the product less 2^32, one that
\* keeps the position in a wider register yields a value above every buffer
\* size, held here as INT_MAX.
PlayheadIndex(s) ==
    IF s.g_playhead <= INT_MAX \div NUM_CHANNELS
    THEN {s.g_playhead * NUM_CHANNELS}
    ELSE {((s.g_playhead - INT_MAX \div 2 - 1) - INT_MAX \div 2 - 1) * 2,
          INT_MAX}

\* The indices of track->buffer the capture loop writes in a call that finds
\* write_pos to be pos.
capture_accesses(s, t, frames, pos) ==
    LET track == s.g_tracks[t]
        max_samples == s.g_record_seconds * SAMPLE_RATE * NUM_CHANNELS
        n == CaptureFrames(pos, frames, max_samples)
    IN IF s.g_transport = "RECORDING" /\ track.armed # 0
       THEN {pos + j : j \in 0 .. (2 * n - 1)}
       ELSE {}

\* The indices of track->buffer the playback loop reads in a call that
\* finds read_pos to be pos.
playback_accesses(s, t, frames, pos) ==
    LET track == s.g_tracks[t]
        is_recording_this_track ==
            s.g_transport = "RECORDING" /\ track.armed # 0
        is_playing_back == s.g_transport \in {"PLAYING", "RECORDING"}
        reads == PlaybackLoop(s, track, pos, frames)
    IN IF ~mix_skipped(s, track) /\ track.length > 0 /\ is_playing_back
          /\ ~is_recording_this_track
       THEN {reads[i] : i \in DOMAIN reads}
                \cup {reads[i] + 1 : i \in DOMAIN reads}
       ELSE {}

\* Mutant of advance_playhead: the playhead advances in every transport
\* state.
advance_playhead_always(s, frames) ==
    LET moved == s.g_playhead + frames
    IN [s EXCEPT !.g_playhead =
           IF s.g_loop_enabled # 0 /\ s.g_loop_end > 0 /\ moved >= s.g_loop_end
           THEN s.g_loop_start ELSE moved]

\* Advance the playhead, then the loop handling.
advance_playhead(s, frames) ==
    IF s.g_transport \in {"PLAYING", "RECORDING"}
    THEN LET moved == s.g_playhead + frames
         IN [s EXCEPT !.g_playhead =
                IF s.g_loop_enabled # 0 /\ s.g_loop_end > 0
                   /\ moved >= s.g_loop_end
                THEN s.g_loop_start ELSE moved]
    ELSE s

\* The globals after the call.
plugin_render_block(s, frames, live) ==
    LET captured ==
            [s EXCEPT !.g_tracks =
                [t \in Tracks |->
                    capture_track(s, t, frames, chain_buffer(s, t, frames, live))]]
        advanced == advance_playhead(captured, frames)
    IN generate_metronome_click(advanced, frames).state

\* The block the call renders: per track the playback reads and whether its
\* live block is monitored, the pan gains, what playback and monitoring add
\* to the first frame they mix, and the click of every sample.
rendered_block(s, frames, live) ==
    LET captured ==
            [s EXCEPT !.g_tracks =
                [t \in Tracks |->
                    capture_track(s, t, frames, chain_buffer(s, t, frames, live))]]
        advanced == advance_playhead(captured, frames)
    IN [ call |-> "render", frames |-> frames, live |-> live,
         transport |-> s.g_transport, playhead |-> s.g_playhead,
         playback |-> [t \in Tracks |->
                         playback_reads(s, captured.g_tracks[t], frames)],
         monitor |-> {t \in Tracks : monitor_mixed(s, captured.g_tracks[t])},
         gain |-> [t \in Tracks |->
                     << pan_l(s.g_tracks[t].pan), pan_r(s.g_tracks[t].pan) >>],
         playback_mix |->
             [t \in Tracks |->
                 LET track == captured.g_tracks[t]
                     reads == playback_reads(s, track, frames)
                 IN IF reads = << >> THEN << >>
                    ELSE MixPair(track, BufferAt(track.buffer, reads[1]),
                                 BufferAt(track.buffer, reads[1] + 1))],
         monitor_mix |->
             [t \in Tracks |->
                 LET track == captured.g_tracks[t]
                     cb == chain_buffer(s, t, frames, live)
                 IN IF monitor_mixed(s, track)
                    THEN MixPair(track, cb[0], cb[1]) ELSE << >>],
         click |-> generate_metronome_click(advanced, frames).click ]

(***************************************************************************)
(* The entry points as actions.  The host serialises them: each runs to    *)
(* its end before the next begins.  Between plugin_on_unload and the next  *)
(* plugin_on_load the host calls nothing else.                             *)
(***************************************************************************)
Control(s) == Commit(s) /\ out' = NoBlock /\ midi_fwd' = NoMidi

OnLoad(listing, chain) ==
    ~loaded /\ Control(plugin_on_load(State, listing, chain))

OnUnload == loaded /\ Control(plugin_on_unload(State))

\* The control calls the model explores during a count-in: those made
\* within MaxBeatOffset samples after a beat of the count-in.
ControlInBounds ==
    g_transport = "COUNTIN" =>
        (g_countin_counter % g_samples_per_beat) <= MaxBeatOffset

SetParam(s) == loaded /\ ControlInBounds /\ Control(s)

SelectTrack(val) == SetParam(set_select_track(State, val))
ToggleArm(val) == SetParam(set_toggle_arm(State, val))
ToggleMonitoring(val) == SetParam(set_toggle_monitoring(State, val))
TrackLevel(val) == SetParam(set_track_level(State, val))
TrackPan(val) == SetParam(set_track_pan(State, val))
TrackMute(val) == SetParam(set_track_mute(State, val))
TrackSolo(val) == SetParam(set_track_solo(State, val))
ClearTrack(val) == SetParam(set_clear_track(State, val))
Transport(val) == SetParam(set_transport(State, val))
GotoStart == SetParam(set_goto_start(State))
GotoEnd == SetParam(set_goto_end(State))
JumpBars(val) ==
    /\ g_playhead <= MaxPlayhead
    /\ set_jump_bars(State, val).g_playhead <= MaxPlayhead
    /\ SetParam(set_jump_bars(State, val))
\* jump_bars with no bound on where a jump forward lands; forward only from
\* the playheads up to MaxPlayhead, so that the sum stays an int.
JumpBarsFar(val) ==
    /\ val > 0 => g_playhead <= MaxPlayhead
    /\ SetParam(set_jump_bars(State, val))
Tempo(val) == SetParam(set_tempo(State, val))
Metronome(val) == SetParam(set_metronome(State, val))
Countin(val) == SetParam(set_countin(State, val))
MidiRouting(val) == SetParam(set_midi_routing(State, val))
ToggleMidiRouting == SetParam(set_toggle_midi_routing(State))
LoopEnabled(val) == SetParam(set_loop_enabled(State, val))
LoadPatch(val, chain) == SetParam(set_load_patch(State, val, chain))
ClearPatch(val) == SetParam(set_clear_patch(State, val))
ClearError == SetParam(set_clear_error(State))
ToggleMute(val) == SetParam(set_toggle_mute(State, val))
RecordSeconds(val) == SetParam(set_record_seconds(State, val))

\* SpecLoop explores the render calls that begin with the playhead at most
\* here, wherever in the beat they begin.
MaxLoopPlayhead == 1000

\* A plugin_set_param call, with its key and value kept in out.
SetParamCall(key, val) ==
    /\ loaded
    /\ ControlInBounds
    /\ Commit(plugin_set_param(State, key, val))
    /\ out' = [call |-> "control", key |-> key, val |-> val]
    /\ midi_fwd' = NoMidi

\* The render calls the model explores (the bounds of the model).
RenderInBounds(frames) ==
    /\ g_playhead <= MaxPlayhead
    /\ g_transport \in {"PLAYING", "RECORDING"} =>
          CMod(g_playhead, g_samples_per_beat) + frames <= MaxBeatOffset
    /\ g_transport = "COUNTIN" => g_playhead <= MaxCountinStart

RenderBlock(frames, live) ==
    /\ loaded
    /\ frames \in 1 .. FRAMES_PER_BLOCK
    /\ RenderInBounds(frames)
    /\ Commit(plugin_render_block(State, frames, live))
    /\ out' = rendered_block(State, frames, live)
    /\ midi_fwd' = NoMidi

\* A render call of SpecLoop.
RenderLoopBlock(frames, live) ==
    /\ loaded
    /\ frames \in 1 .. FRAMES_PER_BLOCK
    /\ g_playhead <= MaxLoopPlayhead
    /\ Commit(plugin_render_block(State, frames, live))
    /\ out' = rendered_block(State, frames, live)
    /\ midi_fwd' = NoMidi

OnMidi(status, len, source) ==
    /\ loaded
    /\ Commit(State)
    /\ out' = [call |-> "midi", status |-> status, len |-> len,
               source |-> source]
    /\ midi_fwd' = plugin_on_midi(State, status, len, source)

(***************************************************************************)
(* plugin_render_block statement by statement, for a host that does not    *)
(* serialise the entry points: between two steps any control call may run. *)
(* Each step reads the globals as they are when it runs; the locals        *)
(* write_pos, max_samples, read_pos, i and t are in rb.  rb.access is the  *)
(* set of track->buffer indices the latest step read or wrote.  The live   *)
(* input is silence.  The statements that touch no track buffer (the chain *)
(* renders, the monitor mix, the click and the clipping) are not split.    *)
(***************************************************************************)
\* SpecRace begins a render call with the playhead at most here.
MaxRacePlayhead == 2

RenderStep(s, r) ==
    /\ CommitGlobals(s)
    /\ rb' = r
    /\ out' = NoBlock
    /\ midi_fwd' = NoMidi

\* for (t ...): the next track, or the statements after the loop.
NextTrack(r) ==
    IF r.t + 1 < NUM_TRACKS
    THEN [r EXCEPT !.pc = "capture", !.t = r.t + 1, !.i = 0, !.access = {}]
    ELSE [r EXCEPT !.pc = "advance", !.access = {}]

\* Entry, and the chain renders.
RenderBegin(frames) ==
    /\ loaded
    /\ rb.pc = "idle"
    /\ frames \in 1 .. FRAMES_PER_BLOCK
    /\ g_playhead <= MaxRacePlayhead
    /\ RenderStep(State, [RenderIdle EXCEPT !.pc = "capture", !.frames = frames])

\* if (g_transport == TRANSPORT_RECORDING && track->armed)
\*     int write_pos = g_playhead * NUM_CHANNELS;
RenderCapture ==
    /\ rb.pc = "capture"
    /\ IF g_transport = "RECORDING" /\ g_tracks[rb.t].armed # 0
       THEN \E pos \in PlayheadIndex(State) :
               RenderStep(State, [rb EXCEPT !.pc = "capture_max",
                                            !.write_pos = pos, !.access = {}])
       ELSE RenderStep(State, [rb EXCEPT !.pc = "mix", !.access = {}])

\* int max_samples = g_record_seconds * SAMPLE_RATE * NUM_CHANNELS;
RenderCaptureMax ==
    /\ rb.pc = "capture_max"
    /\ RenderStep(State,
          [rb EXCEPT !.pc = "capture_loop", !.i = 0,
                     !.max_samples =
                         g_record_seconds * SAMPLE_RATE * NUM_CHANNELS])

\* One test of the capture loop and, when it passes, one iteration.
RenderCaptureLoop ==
    /\ rb.pc = "capture_loop"
    /\ IF rb.i < rb.frames /\ rb.write_pos < rb.max_samples - 1
       THEN LET written == {rb.write_pos, rb.write_pos + 1}
                buffer == g_tracks[rb.t].buffer
            IN RenderStep(
                 [State EXCEPT !.g_tracks[rb.t].buffer =
                     [p \in DOMAIN buffer \ written |-> buffer[p]]],
                 [rb EXCEPT !.write_pos = rb.write_pos + 2, !.i = rb.i + 1,
                            !.access = written])
       ELSE RenderStep(State, [rb EXCEPT !.pc = "capture_len", !.access = {}])

\* int new_length = (g_playhead + frames) * NUM_CHANNELS; if (...) length =
\* new_length.  A product above INT_MAX is negative or above max_samples in
\* every build, and the length stays.
RenderCaptureLen ==
    /\ rb.pc = "capture_len"
    /\ LET new_length == (g_playhead + rb.frames) * NUM_CHANNELS
           track == g_tracks[rb.t]
       IN IF g_playhead <= INT_MAX \div NUM_CHANNELS - rb.frames
             /\ new_length > track.length /\ new_length <= rb.max_samples
          THEN RenderStep([State EXCEPT !.g_tracks[rb.t].length = new_length],
                          [rb EXCEPT !.pc = "mix"])
          ELSE RenderStep(State, [rb EXCEPT !.pc = "mix"])

\* The muted and solo tests, the playback test and int read_pos =
\* g_playhead * NUM_CHANNELS.
RenderMix ==
    /\ rb.pc = "mix"
    /\ LET track == g_tracks[rb.t]
           is_recording_this_track ==
               g_transport = "RECORDING" /\ track.armed # 0
           is_playing_back == g_transport \in {"PLAYING", "RECORDING"}
       IN IF ~mix_skipped(State, track) /\ track.length > 0
             /\ is_playing_back /\ ~is_recording_this_track
          THEN \E pos \in PlayheadIndex(State) :
                  RenderStep(State, [rb EXCEPT !.pc = "playback_loop",
                                               !.i = 0, !.read_pos = pos])
          ELSE RenderStep(State, NextTrack(rb))

\* One iteration of the playback loop; after it, the monitor mix.
RenderPlaybackLoop ==
    /\ rb.pc = "playback_loop"
    /\ LET track == g_tracks[rb.t]
           wraps == g_loop_enabled # 0 /\ g_loop_end > 0
           read_pos == IF rb.read_pos >= track.length
                       THEN g_loop_start * NUM_CHANNELS ELSE rb.read_pos
       IN IF rb.i < rb.frames /\ (rb.read_pos < track.length \/ wraps)
          THEN RenderStep(State,
                  [rb EXCEPT !.read_pos = read_pos + 2, !.i = rb.i + 1,
                             !.access = {read_pos, read_pos + 1}])
          ELSE RenderStep(State, NextTrack(rb))

\* The playhead advance and the loop handling.
RenderAdvance ==
    /\ rb.pc = "advance"
    /\ RenderStep(advance_playhead(State, rb.frames), [rb EXCEPT !.pc = "click"])

\* The metronome, the clipping, and the return.
RenderClick ==
    /\ rb.pc = "click"
    /\ RenderStep(generate_metronome_click(State, rb.frames).state, RenderIdle)

(***************************************************************************)
(* The answers of the chain module and the patch directories of the model  *)
(***************************************************************************)
LineIn == [name |-> "Line In", path |-> "patches/linein.json"]
Bass == [name |-> "Bass", path |-> "patches/bass.json"]

\* Every track gets a chain instance with the patch at index 0.
ChainAll == [t \in Tracks |-> [attach |-> TRUE, found |-> 0]]
\* No chain module.
ChainNone == [t \in Tracks |-> [attach |-> FALSE, found |-> -1]]
\* Track 1 gets no instance, track 3 an instance whose chain lacks the patch.
ChainSome ==
    [t \in Tracks |-> [attach |-> t # 1, found |-> IF t = 3 THEN -1 ELSE 0]]

\* The block size of the model: the host's block.
HostFrames == {FRAMES_PER_BLOCK}

\* A count-in is followed for the blocks that begin within MaxBeatOffset
\* samples after one of its beats (Spec); SpecCountIn follows it to its end.
NearBeat ==
    g_transport = "COUNTIN" =>
        (g_countin_counter % g_samples_per_beat) <= MaxBeatOffset

(***************************************************************************)
(* Spec: the transport commands, with and without count-in, punch-in,      *)
(* the playhead.                                                           *)
(***************************************************************************)
Next ==
    \/ OnLoad(<< LineIn >>, ChainAll)
    \/ \E val \in {<< >>} : ToggleArm(val)
    \/ \E val \in {0, 1} : Countin(val)
    \/ \E val \in {"play", "stop", "record"} : Transport(val)
    \/ GotoStart
    \/ \E val \in {1} : LoopEnabled(val)
    \/ \E frames \in HostFrames : NearBeat /\ RenderBlock(frames, 1)

Spec == Init /\ [][Next]_vars

(***************************************************************************)
(* SpecCountIn: count-ins followed block by block to their completion, at  *)
(* the default tempo and at 300 bpm, from aligned and unaligned playheads. *)
(***************************************************************************)
NextCountIn ==
    \/ OnLoad(<< LineIn >>, ChainAll)
    \/ \E val \in {<< >>} : ToggleArm(val)
    \/ \E val \in {1} : Countin(val)
    \/ \E val \in {"stop", "record"} : Transport(val)
    \/ \E val \in {TEMPO_MAX} : Tempo(val)
    \/ \E frames \in HostFrames : RenderBlock(frames, 1)

SpecCountIn == Init /\ [][NextCountIn]_vars

(***************************************************************************)
(* SpecMix: solo, mute, arm and monitoring against playback, capture and   *)
(* monitor mixing, across an unload and a reload.                          *)
(***************************************************************************)
NextMix ==
    \/ \E chain \in {ChainAll} : OnLoad(<< LineIn >>, chain)
    \/ OnUnload
    \/ \E val \in {0, 1} : TrackSolo(val)
    \/ \E val \in {0, 1} : TrackMute(val)
    \/ \E val \in {<< 0 >>} : ToggleArm(val)
    \/ \E val \in {"play", "stop", "record"} : Transport(val)
    \/ \E frames \in HostFrames : RenderBlock(frames, 1)

SpecMix == Init /\ [][NextMix]_vars

(***************************************************************************)
(* SpecCapacity: recording around the configured limit, with the playhead  *)
(* moved by whole bars, and the limit changed.                             *)
(***************************************************************************)
NextCapacity ==
    \/ OnLoad(<< LineIn >>, ChainAll)
    \/ \E val \in {<< >>} : ToggleArm(val)
    \/ \E val \in {"stop", "record"} : Transport(val)
    \/ \E val \in {5, -5} : JumpBars(val)
    \/ GotoStart
    \/ GotoEnd
    \/ \E val \in {9, 10, 300, 301} : RecordSeconds(val)
    \/ \E val \in {0} : ClearTrack(val)
    \/ \E frames \in HostFrames : RenderBlock(frames, 1)

SpecCapacity == Init /\ [][NextCapacity]_vars

(***************************************************************************)
(* SpecMetronome: the tempo, the metronome switch and the click of the     *)
(* blocks rendered while playing and recording.                            *)
(***************************************************************************)
NextMetronome ==
    \/ OnLoad(<< LineIn >>, ChainAll)
    \/ OnUnload
    \/ \E val \in {19, 20, 22, 45, 299, 300, 301} : Tempo(val)
    \/ \E val \in {0, 1} : Metronome(val)
    \/ \E val \in {<< >>} : ToggleArm(val)
    \/ \E val \in {"play", "stop", "record"} : Transport(val)
    \/ GotoStart
    \/ \E frames \in HostFrames : RenderBlock(frames, 1)

SpecMetronome == Init /\ [][NextMetronome]_vars

(***************************************************************************)
(* SpecMidi: MIDI events from the three sources in both routing modes,     *)
(* with every track, and with only some tracks, holding a chain.           *)
(***************************************************************************)
NextMidi ==
    \/ \E chain \in {ChainAll, ChainSome} : OnLoad(<< LineIn >>, chain)
    \/ OnUnload
    \/ \E val \in {-1, 0, 2, 4} : SelectTrack(val)
    \/ \E val \in {"split", "selected"} : MidiRouting(val)
    \/ ToggleMidiRouting
    \/ \E status \in {144, 146, 149, 179}, len \in {0, 3},
          source \in {MOVE_MIDI_SOURCE_INTERNAL, MOVE_MIDI_SOURCE_EXTERNAL,
                      MOVE_MIDI_SOURCE_HOST} :
          OnMidi(status, len, source)

SpecMidi == Init /\ [][NextMidi]_vars

(***************************************************************************)
(* SpecCapture: two tracks armed and disarmed, muted and soloed, selected  *)
(* or not, and the blocks captured while recording.                        *)
(***************************************************************************)
NextCapture ==
    \/ OnLoad(<< LineIn >>, ChainAll)
    \/ \E val \in {<< 0 >>, << 1 >>} : ToggleArm(val)
    \/ \E val \in {1} : TrackMute(val)
    \/ \E val \in {0} : TrackSolo(val)
    \/ \E val \in {1, 2} : SelectTrack(val)
    \/ \E val \in {"stop", "record"} : Transport(val)
    \/ GotoStart
    \/ \E frames \in HostFrames : RenderBlock(frames, 1)

SpecCapture == Init /\ [][NextCapture]_vars

(***************************************************************************)
(* SpecPlateau: recording up to and across the configured limit.  At tempo *)
(* 264 a jump of 11 bars puts the playhead 10 frames before the limit of   *)
(* 10 seconds.                                                             *)
(***************************************************************************)
NextPlateau ==
    \/ OnLoad(<< LineIn >>, ChainAll)
    \/ \E val \in {<< >>} : ToggleArm(val)
    \/ \E val \in {10} : RecordSeconds(val)
    \/ \E val \in {264} : Tempo(val)
    \/ \E val \in {11} : JumpBars(val)
    \/ GotoStart
    \/ \E val \in {"stop", "record"} : Transport(val)
    \/ \E frames \in HostFrames : RenderBlock(frames, 1)

SpecPlateau == Init /\ [][NextPlateau]_vars

(***************************************************************************)
(* SpecLoop: the playback loop of plugin_render_block as a function of the *)
(* loop region.  No entry point assigns g_loop_start or g_loop_end, which  *)
(* stay 0 in the program; to exercise the wrap of the read position,       *)
(* InitLoop draws g_loop_end from {0, 1000} and is the static              *)
(* initialisation otherwise.  A track is recorded in blocks of 100 frames  *)
(* of silence and played in blocks of 100 frames and, near frame 1000, of   *)
(* 128 frames.                                                             *)
(***************************************************************************)
InitLoop ==
    /\ loaded = FALSE
    /\ g_tracks = [t \in Tracks |-> StaticTrack]
    /\ g_selected_track = 0
    /\ g_transport = "STOPPED"
    /\ g_playhead = 0
    /\ g_loop_start = 0
    /\ g_loop_end \in {0, 1000}
    /\ g_loop_enabled = 0
    /\ g_patches = << >>
    /\ g_metronome_enabled = 0
    /\ g_tempo_bpm = TEMPO_DEFAULT
    /\ g_samples_per_beat = 0
    /\ g_countin_enabled = 0
    /\ g_countin_counter = 0
    /\ g_countin_total_samples = 0
    /\ g_any_solo = 0
    /\ g_midi_routing_mode = "SELECTED"
    /\ g_last_error = ""
    /\ g_record_seconds = MAX_RECORD_SECONDS
    /\ log = ""
    /\ out = NoBlock
    /\ midi_fwd = NoMidi
    /\ rb = RenderIdle

\* The blocks of 128 frames of SpecLoop: played from the last 200 frames
\* before frame 1000 on.
NearLoopEnd == g_transport = "PLAYING" /\ g_playhead >= 800

NextLoop ==
    \/ OnLoad(<< LineIn >>, ChainAll)
    \/ \E val \in {<< >>} : ToggleArm(val)
    \/ \E val \in {1} : LoopEnabled(val)
    \/ \E val \in {"record"} : Transport(val)
    \/ GotoStart
    \/ \E frames \in {100} : RenderLoopBlock(frames, 0)
    \/ \E frames \in {FRAMES_PER_BLOCK} :
          NearLoopEnd /\ RenderLoopBlock(frames, 0)

SpecLoop == InitLoop /\ [][NextLoop]_vars

(***************************************************************************)
(* SpecPan: the level and the pan of a track that is monitored, recorded   *)
(* and played back.                                                        *)
(***************************************************************************)
NextPan ==
    \/ OnLoad(<< LineIn >>, ChainAll)
    \/ \E val \in {<< 0, -1000 >>, << 0, -500 >>, << 0, 0 >>, << 0, 500 >>,
                   << 0, 1000 >>} : TrackPan(val)
    \/ \E val \in {<< 0, 500 >>, << 0, 1000 >>} : TrackLevel(val)
    \/ \E val \in {<< >>} : ToggleArm(val)
    \/ \E val \in {"play", "stop", "record"} : Transport(val)
    \/ GotoStart
    \/ \E frames \in HostFrames : RenderBlock(frames, 1)

SpecPan == Init /\ [][NextPan]_vars

(***************************************************************************)
(* SpecClick: count-ins from playheads on and off the beat, followed block *)
(* by block to their end, with the metronome switched on and off.          *)
(***************************************************************************)
NextClick ==
    \/ OnLoad(<< LineIn >>, ChainAll)
    \/ \E val \in {<< >>} : ToggleArm(val)
    \/ \E val \in {1} : Countin(val)
    \/ \E val \in {0, 1} : Metronome(val)
    \/ \E val \in {"stop", "record"} : Transport(val)
    \/ \E frames \in HostFrames : RenderBlock(frames, 1)

SpecClick == Init /\ [][NextClick]_vars

(***************************************************************************)
(* SpecBounds: the playhead moved by goto_start, goto_end and jump_bars,   *)
(* far beyond the end of the buffers too, and the buffer indices of the    *)
(* render call each state would be answered with.                          *)
(***************************************************************************)
NextBounds ==
    \/ OnLoad(<< LineIn >>, ChainAll)
    \/ \E val \in {<< >>} : ToggleArm(val)
    \/ \E val \in {"play", "stop", "record"} : Transport(val)
    \/ \E val \in {13606, -13606} : JumpBarsFar(val)
    \/ GotoStart
    \/ GotoEnd
    \/ \E val \in {1} : LoopEnabled(val)
    \/ \E frames \in HostFrames : RenderBlock(frames, 1)

SpecBounds == Init /\ [][NextBounds]_vars

(***************************************************************************)
(* SpecRace: render calls of 2 frames run statement by statement, with     *)
(* control calls between any two statements.                               *)
(***************************************************************************)
NextRace ==
    \/ OnLoad(<< LineIn >>, ChainAll)
    \/ \E val \in {<< >>} : ToggleArm(val)
    \/ \E val \in {"play", "record"} : Transport(val)
    \/ \E val \in {13606, -13606} : JumpBarsFar(val)
    \/ \E val \in {0} : ClearTrack(val)
    \/ \E val \in {10} : RecordSeconds(val)
    \/ \E frames \in {2} : RenderBegin(frames)
    \/ RenderCapture
    \/ RenderCaptureMax
    \/ RenderCaptureLoop
    \/ RenderCaptureLen
    \/ RenderMix
    \/ RenderPlaybackLoop
    \/ RenderAdvance
    \/ RenderClick

SpecRace == Init /\ [][NextRace]_vars

(***************************************************************************)
(* SpecIndex: the control calls that take a track index, with indices      *)
(* inside and outside 0..3, on tracks that are armed, recorded, muted and  *)
(* soloed; one block is rendered from the start of the tape.               *)
(***************************************************************************)
NextIndex ==
    \/ OnLoad(<< LineIn >>, ChainAll)
    \/ \E key \in {"select_track", "track_mute", "track_solo", "clear_track"},
          val \in {-1, 1, 4} : SetParamCall(key, val)
    \/ \E key \in {"toggle_arm", "toggle_monitoring"},
          val \in {<< >>, << -1 >>, << 4 >>} : SetParamCall(key, val)
    \/ \E key \in {"track_level", "track_pan"},
          val \in {<< -1, 500 >>, << 1, 500 >>, << 4, 500 >>} :
          SetParamCall(key, val)
    \/ \E val \in {"record"} : Transport(val)
    \/ \E frames \in HostFrames : g_playhead = 0 /\ RenderBlock(frames, 1)

SpecIndex == Init /\ [][NextIndex]_vars

(***************************************************************************)
(* SpecTempo: tempo calls with values below, inside and above 20..300      *)
(* (0 is what atoi gives for a value that is not a number), among the      *)
(* metronome switch and the transport calls, across an unload and a        *)
(* reload; one block is rendered from the start of the tape.               *)
(***************************************************************************)
NextTempo ==
    \/ OnLoad(<< LineIn >>, ChainAll)
    \/ OnUnload
    \/ \E val \in {-1, 0, 19, 20, 22, 300, 301} : SetParamCall("tempo", val)
    \/ \E val \in {0, 1} : SetParamCall("metronome", val)
    \/ \E val \in {<< >>} : SetParamCall("toggle_arm", val)
    \/ \E val \in {"play", "stop", "record"} : SetParamCall("transport", val)
    \/ \E frames \in HostFrames : g_playhead = 0 /\ RenderBlock(frames, 1)

SpecTempo == Init /\ [][NextTempo]_vars

(***************************************************************************)
(* SpecPatch: load_patch on a catalogue of two patches, with a chain       *)
(* module that attaches or not and finds the patch or not, among           *)
(* clear_patch, clear_error, select_track, the transport and one rendered  *)
(* block.                                                                  *)
(***************************************************************************)
NextPatch ==
    \/ \E chain \in {ChainAll, ChainSome} : OnLoad(<< LineIn, Bass >>, chain)
    \/ \E val \in {0, 1} : SetParamCall("select_track", val)
    \/ \E patch_idx \in {-1, 0, 1, 2}, attach \in BOOLEAN, found \in {-1, 0} :
          SetParamCall("load_patch",
                       << patch_idx, [attach |-> attach, found |-> found] >>)
    \/ \E val \in {0} : SetParamCall("clear_patch", val)
    \/ \E val \in {0} : SetParamCall("clear_error", val)
    \/ \E val \in {"play", "stop"} : SetParamCall("transport", val)
    \/ \E frames \in HostFrames : g_playhead = 0 /\ RenderBlock(frames, 1)

SpecPatch == Init /\ [][NextPatch]_vars

(***************************************************************************)
(* SpecRestart: sessions that set the transport, the metronome, the        *)
(* count-in, the tempo and a solo, each ended by an unload and followed    *)
(* by a load in the same process.                                          *)
(***************************************************************************)
NextRestart ==
    \/ OnLoad(<< LineIn >>, ChainAll)
    \/ OnUnload
    \/ \E val \in {<< >>} : ToggleArm(val)
    \/ \E val \in {0} : TrackSolo(val)
    \/ \E val \in {1} : Metronome(val)
    \/ \E val \in {1} : Countin(val)
    \/ \E val \in {100} : Tempo(val)
    \/ \E val \in {"play", "stop", "record"} : Transport(val)
    \/ \E frames \in HostFrames :
          g_playhead = 0 /\ NearBeat /\ RenderBlock(frames, 1)

SpecRestart == Init /\ [][NextRestart]_vars

(***************************************************************************)
(* SpecCountInLive: count-ins during which the host makes no control call  *)
(* and keeps calling render_block, as the audio callback does (weak        *)
(* fairness of the render calls of a count-in).  A count-in is begun with  *)
(* the playhead at most MaxCountinStart, on the beat and off it, at tempo  *)
(* 120 and 300.                                                            *)
(***************************************************************************)
NextCountInLive ==
    \/ OnLoad(<< LineIn >>, ChainAll)
    \/ g_transport # "COUNTIN" /\ \E val \in {<< >>} : ToggleArm(val)
    \/ g_transport # "COUNTIN" /\ \E val \in {1} : Countin(val)
    \/ g_transport # "COUNTIN" /\ \E val \in {TEMPO_MAX} : Tempo(val)
    \/ g_transport # "COUNTIN" /\ \E val \in {"stop"} : Transport(val)
    \/ g_transport # "COUNTIN" /\ g_playhead <= MaxCountinStart
          /\ \E val \in {"record"} : Transport(val)
    \/ \E frames \in HostFrames : RenderBlock(frames, 1)

\* What a render call made during a count-in does to the counter and the
\* transport: no track captures, nothing is played back and the playhead
\* stays (each tests the transport), so it is generate_metronome_click.
CountInBlock(frames) ==
    /\ loaded
    /\ g_transport = "COUNTIN"
    /\ RenderInBounds(frames)
    /\ \E s \in {generate_metronome_click(State, frames).state} :
          /\ g_countin_counter' = s.g_countin_counter
          /\ g_transport' = s.g_transport

SpecCountInLive ==
    /\ Init
    /\ [][NextCountInLive]_vars
    /\ WF_<< g_countin_counter, g_transport >>(
          \E frames \in HostFrames : CountInBlock(frames))

(***************************************************************************)
(* SpecPlayback: two tracks recorded one after the other from the start of *)
(* the tape, with and without a count-in, and played back while stopped,   *)
(* counting in, playing and recording.                                     *)
(***************************************************************************)
NextPlayback ==
    \/ OnLoad(<< LineIn >>, ChainAll)
    \/ \E val \in {<< 0 >>, << 1 >>} : ToggleArm(val)
    \/ \E val \in {1} : Countin(val)
    \/ \E val \in {"play", "stop", "record"} : Transport(val)
    \/ GotoStart
    \/ \E frames \in HostFrames : NearBeat /\ RenderBlock(frames, 1)

SpecPlayback == Init /\ [][NextPlayback]_vars

(***************************************************************************)
(* SpecMonitor: monitoring switched per track, on tracks with a patch,     *)
(* and with a chain instance that has no patch, muted and not, in blocks    *)
(* rendered from the start of the tape while stopped, counting in, playing *)
(* and recording.                                                          *)
(***************************************************************************)
NextMonitor ==
    \/ OnLoad(<< LineIn >>, ChainSome)
    \/ \E val \in {<< 0 >>, << 3 >>} : ToggleMonitoring(val)
    \/ \E val \in {0} : TrackMute(val)
    \/ \E val \in {0} : ClearPatch(val)
    \/ \E val \in {<< 0 >>} : ToggleArm(val)
    \/ \E val \in {1} : Countin(val)
    \/ \E val \in {"play", "stop", "record"} : Transport(val)
    \/ GotoStart
    \/ \E frames \in HostFrames :
          g_playhead = 0 /\ NearBeat /\ RenderBlock(frames, 1)

SpecMonitor == Init /\ [][NextMonitor]_vars

(***************************************************************************)
(* SpecRoundTrip: track 0 recorded from the start of the tape and from bar *)
(* 1, stopped, rewound and played back, at level 0.8 and 1, monitored and  *)
(* not.  The live input differs from one block of the timeline to the      *)
(* next: LiveAt(playhead) is the input of the call that begins there.      *)
(***************************************************************************)
LiveAt(playhead) == 1 + ((playhead \div FRAMES_PER_BLOCK) % 2)

NextRoundTrip ==
    \/ OnLoad(<< LineIn >>, ChainAll)
    \/ \E val \in {<< 0 >>} : ToggleArm(val)
    \/ \E val \in {<< 0 >>} : ToggleMonitoring(val)
    \/ \E val \in {<< 0, 1000 >>} : TrackLevel(val)
    \/ \E val \in {"play", "stop", "record"} : Transport(val)
    \/ GotoStart
    \/ \E val \in {1} : g_playhead = 0 /\ JumpBars(val)
    \/ \E frames \in HostFrames : RenderBlock(frames, LiveAt(g_playhead))

SpecRoundTrip == Init /\ [][NextRoundTrip]_vars

(***************************************************************************)
(* SpecJump: jumps by whole bars, forward and back, at tempos that divide  *)
(* 44100 * 60 and at tempos that do not; the tempo is set at the start of  *)
(* the tape.                                                               *)
(***************************************************************************)
NextJump ==
    \/ OnLoad(<< LineIn >>, ChainAll)
    \/ \E val \in {20, 22, 45, 120, 200, 299, 300} :
          g_playhead = 0 /\ Tempo(val)
    \/ \E val \in {-2, -1, 1, 3} : JumpBars(val)
    \/ GotoStart

SpecJump == Init /\ [][NextJump]_vars

(***************************************************************************)
(* SpecQuery: the countin_beats and transport queries between the calls of *)
(* count-ins begun on and off the beat, at tempo 120 and at tempo 265,     *)
(* where a beat is a whole number of blocks.                               *)
(***************************************************************************)
GetParam(key) ==
    /\ loaded
    /\ ControlInBounds
    /\ Commit(State)
    /\ out' = [call |-> "get_param", key |-> key,
               val |-> plugin_get_param(State, key)]
    /\ midi_fwd' = NoMidi

NextQuery ==
    \/ OnLoad(<< LineIn >>, ChainAll)
    \/ g_transport # "COUNTIN" /\ \E val \in {<< >>} : ToggleArm(val)
    \/ g_transport # "COUNTIN" /\ \E val \in {1} : Countin(val)
    \/ g_transport # "COUNTIN" /\ \E val \in {265} : Tempo(val)
    \/ g_transport # "COUNTIN" /\ \E val \in {"stop"} : Transport(val)
    \/ g_transport # "COUNTIN" /\ g_playhead <= MaxCountinStart
          /\ \E val \in {"record"} : Transport(val)
    \/ \E frames \in HostFrames : RenderBlock(frames, 1)
    \/ \E key \in {"countin_beats", "transport"} : GetParam(key)

SpecQuery == Init /\ [][NextQuery]_vars

(***************************************************************************)
(* SpecPlayhead: every call that moves the playhead: goto_start, goto_end, *)
(* jumps forward and back past the start, the advance of the render call   *)
(* and the move to the beat that ends a count-in.  One take is recorded,   *)
(* near the start of the tape, with no jump during it; a count-in runs     *)
(* undisturbed.                                                            *)
(***************************************************************************)
NextPlayhead ==
    \/ OnLoad(<< LineIn >>, ChainAll)
    \/ \E frames \in HostFrames : RenderBlock(frames, 1)
    \/ /\ g_transport # "COUNTIN"
       /\ \/ \E val \in {<< >>} : ToggleArm(val)
          \/ \E val \in {1} : g_playhead = FRAMES_PER_BLOCK /\ Countin(val)
          \/ \E val \in {TEMPO_MAX} : g_playhead = 0 /\ Tempo(val)
          \/ \E val \in {"play", "stop"} : Transport(val)
          \/ \E val \in {"record"} :
                /\ g_playhead <= MaxCountinStart
                /\ g_tracks[0].length = 0
                /\ Transport(val)
          \/ GotoEnd
          \/ g_transport # "RECORDING" /\ GotoStart
          \/ \E val \in {-2, -1, 1} :
                /\ g_transport # "RECORDING"
                /\ g_playhead <= BEATS_PER_BAR * g_samples_per_beat
                /\ SetParamCall("jump_bars", val)

SpecPlayhead == Init /\ [][NextPlayhead]_vars

(***************************************************************************)
(* Claims                                                                  *)
(***************************************************************************)
IsRender == out.call = "render"

\* C1, as stated: with some track soloed, exactly the non-soloed tracks are
\* left out of playback and monitor mixing (a soloed and muted track still
\* contributes); with no track soloed, exactly the muted tracks are.
C1_LeftOut(t) ==
    IF \E u \in Tracks : g_tracks[u].solo # 0
    THEN g_tracks[t].solo = 0
    ELSE g_tracks[t].muted # 0

C1_SoloOverridesMute ==
    IsRender =>
        \A t \in Tracks :
            /\ t \in out.monitor <=>
                  /\ ~C1_LeftOut(t)
                  /\ g_tracks[t].monitoring # 0
                  /\ g_tracks[t].chain_instance
                  /\ g_tracks[t].chain_patch_idx >= 0
            /\ out.playback[t] # << >> <=>
                  /\ ~C1_LeftOut(t)
                  /\ g_tracks[t].length > out.playhead * NUM_CHANNELS
                  /\ out.transport \in {"PLAYING", "RECORDING"}
                  /\ ~(out.transport = "RECORDING" /\ g_tracks[t].armed # 0)

\* C2, as stated: every track's length is at most record_seconds * 44100 * 2
\* for the record_seconds now configured.
C2_LengthWithinLimit ==
    \A t \in Tracks :
        g_tracks[t].length <= g_record_seconds * SAMPLE_RATE * NUM_CHANNELS

\* C3, as stated: in a block rendered while Playing or Recording with the
\* metronome on, from playhead P, the sample at offset n carries the click
\* of beat phase (P + n) mod samples_per_beat, and a click only when that
\* phase is below 200.
C3_ClickPhaseFromBlockStart ==
    (IsRender /\ out.transport \in {"PLAYING", "RECORDING"}
     /\ g_metronome_enabled # 0) =>
        \A n \in 0 .. (out.frames - 1) :
            LET phase == (out.playhead + n) % g_samples_per_beat
            IN out.click[n] = IF phase < CLICK_SAMPLES THEN phase ELSE -1

\* C4, as stated: while loaded, samples_per_beat is 44100 * 60 / tempo
\* rounded to the nearest integer.
C4_SamplesPerBeatRounded ==
    loaded =>
        g_samples_per_beat =
            (2 * SAMPLE_RATE * 60 + g_tempo_bpm) \div (2 * g_tempo_bpm)

\* C4, amended: while loaded, the tempo is in 20..300 and samples_per_beat
\* is 44100 * 60 / tempo with the fraction dropped.
C4_SamplesPerBeatTruncated ==
    loaded =>
        /\ g_tempo_bpm \in TEMPO_MIN .. TEMPO_MAX
        /\ g_samples_per_beat * g_tempo_bpm <= SAMPLE_RATE * 60
        /\ (g_samples_per_beat + 1) * g_tempo_bpm > SAMPLE_RATE * 60

\* C4 witness: a tempo call has left a tempo at which the quotient has a
\* fraction of a half or more.
C4_Witness ==
    /\ loaded /\ g_tempo_bpm = 22 /\ g_samples_per_beat = 120272
    /\ 2 * (SAMPLE_RATE * 60 - g_samples_per_beat * g_tempo_bpm) >= g_tempo_bpm

\* C10: an event is forwarded to at most one chain: that of the selected
\* track, except that an external event in split mode goes to the track of
\* its channel (status & 0x0F) when that is below 4 and nowhere otherwise.
C10_Target ==
    IF out.source = MOVE_MIDI_SOURCE_EXTERNAL
       /\ g_midi_routing_mode = "SPLIT_CHANNELS"
    THEN IF out.status % 16 < NUM_TRACKS THEN {out.status % 16} ELSE {}
    ELSE {g_selected_track}

C10_MidiRouting ==
    out.call = "midi" =>
        /\ Cardinality(midi_fwd) <= 1
        /\ midi_fwd \subseteq C10_Target
        /\ \A t \in C10_Target :
              (out.len >= 1 /\ g_tracks[t].chain_instance) => t \in midi_fwd
        /\ g_selected_track \in Tracks

\* C10 witness: status 0x92 from outside in split mode reached track 2
\* while another track was selected.
C10_Witness ==
    /\ out.call = "midi" /\ out.status = 146
    /\ out.source = MOVE_MIDI_SOURCE_EXTERNAL
    /\ g_midi_routing_mode = "SPLIT_CHANNELS"
    /\ g_selected_track = 0
    /\ midi_fwd = {2}

\* C5, as stated: the transport enters CountIn if and only if it was
\* Stopped, a record command is issued and countin_enabled is set.
C5_CountInIffStoppedRecordEnabled ==
    [][ (g_transport # "COUNTIN" /\ g_transport' = "COUNTIN")
        <=> (Transport("record") /\ g_transport = "STOPPED"
             /\ g_countin_enabled # 0) ]_vars

\* C5, amended: the transport enters CountIn if and only if it was Stopped,
\* a record command is issued, countin_enabled is set and at least one track
\* is armed; a record command while Playing never enters CountIn.
C5_CountInIffStoppedRecordEnabledArmed ==
    [][ /\ (g_transport # "COUNTIN" /\ g_transport' = "COUNTIN")
           <=> (Transport("record") /\ g_transport = "STOPPED"
                /\ g_countin_enabled # 0 /\ any_track_armed(State))
        /\ (Transport("record") /\ g_transport = "PLAYING")
           => g_transport' # "COUNTIN" ]_vars

\* C5 witness: a record command has just started a count-in.
C5_Witness ==
    /\ g_transport = "COUNTIN"
    /\ log = "Count-in started (4 beats)"
    /\ g_countin_total_samples = COUNTIN_BEATS * g_samples_per_beat

\* C6: when a render call completes the count-in, the playhead is on a beat,
\* it is the smallest multiple of samples_per_beat that is >= the playhead
\* before the call, and counter and total are 0.
C6_CountInCompletionSnaps ==
    (IsRender /\ out.transport = "COUNTIN" /\ g_transport # "COUNTIN") =>
        /\ g_transport = "RECORDING"
        /\ g_playhead % g_samples_per_beat = 0
        /\ g_playhead >= out.playhead
        /\ g_playhead - out.playhead < g_samples_per_beat
        /\ g_countin_counter = 0
        /\ g_countin_total_samples = 0

\* C6 witness: a count-in that began off the beat has completed and the
\* playhead has been moved forward to the beat.
C6_Witness ==
    /\ IsRender /\ out.transport = "COUNTIN" /\ g_transport = "RECORDING"
    /\ out.playhead % g_samples_per_beat # 0
    /\ g_playhead > out.playhead

\* C7: a record command while Stopped or Playing with no track armed changes
\* neither the transport, the playhead, the count-in counter and total, nor
\* any track.
C7_RecordUnarmedRejected ==
    [][ (Transport("record") /\ g_transport \in {"STOPPED", "PLAYING"}
         /\ ~any_track_armed(State))
        => UNCHANGED << g_transport, g_playhead, g_countin_counter,
                        g_countin_total_samples, g_tracks >> ]_vars

\* C7 witness: a record command was rejected while Playing.
C7_Witness ==
    /\ log = "No track armed for recording"
    /\ g_transport = "PLAYING"
    /\ ~any_track_armed(State)

\* C8: a stop command sets the transport to Stopped and keeps the playhead;
\* while Stopped a render call changes neither the playhead nor any track's
\* length or buffer, and only a transport command ends Stopped.
C8_StopHalts ==
    [][ /\ Transport("stop") =>
              (g_transport' = "STOPPED" /\ g_playhead' = g_playhead)
        /\ (g_transport = "STOPPED" /\ out'.call = "render") =>
              UNCHANGED << g_transport, g_playhead, g_tracks >>
        /\ (g_transport = "STOPPED" /\ g_transport' # "STOPPED") =>
              (Transport("play") \/ Transport("record")) ]_vars

\* C8 witness: a block rendered while Stopped, after a recording was stopped
\* away from the start.
C8_Witness ==
    /\ IsRender /\ out.transport = "STOPPED" /\ g_transport = "STOPPED"
    /\ g_playhead > 0
    /\ \E t \in Tracks : g_tracks[t].length > 0 /\ g_tracks[t].buffer # EmptyBuffer

\* C9: a render call that starts in Playing or Recording moves the playhead
\* by its frames and then, with loop_enabled, loop_end > 0 and the playhead
\* >= loop_end, to loop_start; one that starts in Stopped, or in CountIn and
\* does not complete it, leaves the playhead where it was.
C9_PlayheadAdvance ==
    IsRender =>
        IF out.transport \in {"PLAYING", "RECORDING"}
        THEN g_playhead =
                IF g_loop_enabled # 0 /\ g_loop_end > 0
                   /\ out.playhead + out.frames >= g_loop_end
                THEN g_loop_start
                ELSE out.playhead + out.frames
        ELSE (out.transport = "STOPPED" \/ g_transport = "COUNTIN")
                => g_playhead = out.playhead

\* C9 witness: a block rendered while Playing, with looping switched on.
C9_Witness ==
    /\ IsRender /\ out.transport = "PLAYING" /\ g_loop_enabled # 0
    /\ out.playhead > 0
    /\ g_playhead = out.playhead + out.frames

\* C9 witness of the other half: a block rendered during a count-in.
C9_WitnessCountIn ==
    /\ IsRender /\ out.transport = "COUNTIN" /\ g_transport = "COUNTIN"
    /\ g_playhead = out.playhead /\ g_playhead > 0


\* C11: after a render call that began in Recording, the buffer of every
\* armed track holds, from stereo position 2 * playhead (the playhead at the
\* start of the call), the block its own chain rendered in that call,
\* whatever its muted and solo flags, the solo state and the selected track
\* are.
C11_ArmedTracksCaptured ==
    (IsRender /\ out.transport = "RECORDING") =>
        \A t \in Tracks :
            g_tracks[t].armed # 0 =>
                \A j \in 0 .. (NUM_CHANNELS * out.frames - 1) :
                    BufferAt(g_tracks[t].buffer,
                             NUM_CHANNELS * out.playhead + j)
                        = IF g_tracks[t].chain_instance
                          THEN LiveSample(out.live, t, j) ELSE 0

\* C11 witness: two tracks captured in one block, one of them muted, not
\* soloed while another track is, and not the selected track.
C11_Witness ==
    /\ IsRender /\ out.transport = "RECORDING" /\ out.playhead > 0
    /\ g_tracks[0].armed # 0 /\ g_tracks[1].armed # 0
    /\ g_tracks[1].muted # 0 /\ g_tracks[1].solo = 0 /\ g_any_solo # 0
    /\ g_selected_track = 2
    /\ g_tracks[1].buffer[NUM_CHANNELS * out.playhead] = LiveSample(1, 1, 0)
    /\ g_tracks[0].buffer[NUM_CHANNELS * out.playhead] = LiveSample(1, 0, 0)

\* C12, as stated: a render call in Recording that begins below the capacity
\* C = record_seconds * 44100 * 2 leaves every armed track with the length
\* max(old length, min((playhead + frames) * 2, C)), so that the length
\* covers every sample the call wrote, also in the block that straddles C.
C12_LengthCoversCapture ==
    [][ \A frames \in HostFrames :
          (RenderBlock(frames, 1) /\ g_transport = "RECORDING"
           /\ g_playhead * NUM_CHANNELS
                < g_record_seconds * SAMPLE_RATE * NUM_CHANNELS)
          => \A t \in Tracks :
                g_tracks[t].armed # 0 =>
                    g_tracks'[t].length =
                        Max(g_tracks[t].length,
                            Min((g_playhead + frames) * NUM_CHANNELS,
                                g_record_seconds * SAMPLE_RATE * NUM_CHANNELS))
      ]_vars

C13_WitnessSilence ==
    /\ IsRender /\ out.transport = "PLAYING" /\ out.playhead = 900
    /\ g_loop_enabled = 0
    /\ g_tracks[0].length = 2000
    /\ out.frames = FRAMES_PER_BLOCK
    /\ Len(out.playback[0]) = 100

\* C14: in playback and in monitor mixing, pan -1 gives the gains 1 left and
\* 0 right, pan +1 gives 0 left and 1 right, pan 0 gives 1 and 1; with level
\* 1 and pan 0 a sample is mixed as it is into both channels.
C14_PanLaw ==
    IsRender =>
        \A t \in Tracks :
            LET track == g_tracks[t]
                first == out.playback[t][1]
                played == << BufferAt(track.buffer, first),
                             BufferAt(track.buffer, first + 1) >>
                live == << LiveSample(out.live, t, 0),
                           LiveSample(out.live, t, 1) >>
            IN /\ track.pan = -1000 => out.gain[t] = << 1000, 0 >>
               /\ track.pan = 1000 => out.gain[t] = << 0, 1000 >>
               /\ track.pan = 0 => out.gain[t] = << 1000, 1000 >>
               /\ (t \in out.monitor /\ track.level = 1000) =>
                     /\ track.pan = 0 => out.monitor_mix[t] = live
                     /\ track.pan = -1000 =>
                           out.monitor_mix[t] = << live[1], 0 >>
                     /\ track.pan = 1000 =>
                           out.monitor_mix[t] = << 0, live[2] >>
               /\ (out.playback[t] # << >> /\ track.level = 1000) =>
                     /\ track.pan = 0 => out.playback_mix[t] = played
                     /\ track.pan = -1000 =>
                           out.playback_mix[t] = << played[1], 0 >>
                     /\ track.pan = 1000 =>
                           out.playback_mix[t] = << 0, played[2] >>

\* C14 witness: a recorded track played back at level 1, panned hard left,
\* and monitored in the same block.
C14_Witness ==
    /\ IsRender /\ out.transport = "PLAYING"
    /\ g_tracks[0].level = 1000 /\ g_tracks[0].pan = -1000
    /\ 0 \in out.monitor
    /\ out.monitor_mix[0] = << LiveSample(1, 0, 0), 0 >>
    /\ out.playback[0] # << >>
    /\ out.playback_mix[0] = << LiveSample(1, 0, 0), 0 >>

\* C15: a render call in Stopped adds no click, whatever metronome_enabled
\* is; in a render call in CountIn, whatever metronome_enabled is, a sample
\* rendered while the counter c is below the total carries the click of
\* phase c mod samples_per_beat when c >= 0 and that phase is below 200, and
\* no click when c < 0; the counter goes up by one per sample rendered in
\* CountIn.
C15_ClickPolicy ==
    [][ \A frames \in HostFrames :
          RenderBlock(frames, 1) =>
            /\ g_transport = "STOPPED" =>
                  \A n \in 0 .. (frames - 1) : out'.click[n] = -1
            /\ g_transport = "COUNTIN" =>
                  \A n \in 0 .. (frames - 1) :
                      LET c == g_countin_counter + n
                      IN c < g_countin_total_samples =>
                            out'.click[n] =
                                IF c >= 0 /\ c % g_samples_per_beat < CLICK_SAMPLES
                                THEN c % g_samples_per_beat ELSE -1
            /\ (g_transport = "COUNTIN" /\ g_transport' = "COUNTIN") =>
                  g_countin_counter' = g_countin_counter + frames
      ]_vars

\* C15 witness: with the metronome off, a count-in that began off the beat
\* has rendered a block of its lead-in without a click and later a block
\* in which its second beat begins, the click beginning with it.
C15_Witness ==
    /\ IsRender /\ out.transport = "COUNTIN" /\ g_transport = "COUNTIN"
    /\ g_metronome_enabled = 0
    /\ g_playhead % g_samples_per_beat # 0
    /\ g_countin_counter > g_samples_per_beat
    /\ g_countin_counter < g_samples_per_beat + out.frames
    /\ \E n \in 1 .. (out.frames - 1) :
          /\ out.click[n] = 0
          /\ out.click[n - 1] = -1
          /\ out.click[out.frames - 1] = out.frames - 1 - n

\* C15 witness of the lead-in: a block rendered with the counter below 0.
C15_WitnessLeadIn ==
    /\ IsRender /\ out.transport = "COUNTIN" /\ g_transport = "COUNTIN"
    /\ g_countin_counter < 0
    /\ \A n \in 0 .. (out.frames - 1) : out.click[n] = -1

\* C15 witness of Stopped: a block rendered in Stopped with the metronome on.
C15_WitnessStopped ==
    /\ IsRender /\ out.transport = "STOPPED" /\ g_metronome_enabled # 0
    /\ \A n \in 0 .. (out.frames - 1) : out.click[n] = -1

\* C16, as stated: with the metronome on, in the render call that completes
\* the count-in the sample at which the counter reaches the total has beat
\* phase 0 and every later sample of the block the phase one greater; and a
\* Recording block that follows a block without a control call in between
\* goes on from the phase of that block's last sample.
C16_PhaseLockedAcrossCountIn ==
    [][ \A frames \in HostFrames :
          (RenderBlock(frames, 1) /\ g_metronome_enabled # 0) =>
            /\ (g_transport = "COUNTIN" /\ g_transport' = "RECORDING") =>
                  LET k == Max(0, g_countin_total_samples - g_countin_counter)
                  IN \A n \in k .. (frames - 1) : out'.click[n] = n - k
            /\ (g_transport = "RECORDING" /\ IsRender
                /\ out.click[out.frames - 1] >= 0
                /\ out.click[out.frames - 1] + 1 < CLICK_SAMPLES) =>
                  out'.click[0] = out.click[out.frames - 1] + 1
      ]_vars

\* C17, as stated: in every reachable state, the render call that follows
\* reads and writes every track buffer at indices in 0 .. allocated size - 1
\* only, wherever goto_start, goto_end and jump_bars have put the playhead.
C17_IndicesInBuffer ==
    loaded =>
        \A frames \in HostFrames, t \in Tracks :
            \A pos \in PlayheadIndex(State) :
                \A p \in capture_accesses(State, t, frames, pos)
                            \cup playback_accesses(State, t, frames, pos) :
                    p >= 0 /\ p < TRACK_BUFFER_SIZE

\* C18, as stated: with control calls running between the statements of a
\* render call, every statement of the render call reads and writes the
\* track buffers at indices in 0 .. allocated size - 1 only, and every
\* track's length stays at most the allocated size.
C18_RaceIndicesInBuffer ==
    /\ \A p \in rb.access : p >= 0 /\ p < TRACK_BUFFER_SIZE
    /\ \A t \in Tracks : g_tracks[t].length <= TRACK_BUFFER_SIZE

\* The track index a value carries for the keys that take one: the integer
\* itself, or the first field of an optional or "t:v" value (the selected
\* track when the optional value is absent).
C19_Index(key, val) ==
    IF key \in {"select_track", "track_mute", "track_solo", "clear_track"}
    THEN val
    ELSE IF Len(val) = 0 THEN g_selected_track ELSE val[1]

\* The call recorded in out is one of the eight keys with an index outside
\* 0 .. 3.
C19_OutOfRangeCall(o) ==
    /\ o.call = "control"
    /\ "key" \in DOMAIN o
    /\ o.key \in {"select_track", "toggle_arm", "toggle_monitoring",
                  "track_level", "track_pan", "track_mute", "track_solo",
                  "clear_track"}
    /\ ~ InRange(C19_Index(o.key, o.val))

\* C19: a select_track, toggle_arm, toggle_monitoring, track_level,
\* track_pan, track_mute, track_solo or clear_track call whose track index
\* is below 0 or at least 4 leaves every global as it was and logs nothing;
\* the selected track is in 0 .. 3 in every reachable state.
C19_OutOfRangeIndexIgnored ==
    /\ [](g_selected_track \in Tracks)
    /\ [][ C19_OutOfRangeCall(out') =>
             /\ UNCHANGED << loaded, g_tracks, g_selected_track, g_transport,
                             g_playhead, g_loop_start, g_loop_end,
                             g_loop_enabled, g_patches, g_metronome_enabled,
                             g_tempo_bpm, g_samples_per_beat,
                             g_countin_enabled, g_countin_counter,
                             g_countin_total_samples, g_any_solo,
                             g_midi_routing_mode, g_last_error,
                             g_record_seconds >>
             /\ log' = ""
       ]_vars

\* An out-of-range clear_track on a recording with a recorded, muted and
\* soloed track 1 selected.
C19_Witness ==
    /\ C19_OutOfRangeCall(out)
    /\ out.key = "clear_track"
    /\ out.val = 4
    /\ g_selected_track = 1
    /\ g_tracks[1].length > 0
    /\ g_tracks[1].muted # 0
    /\ g_tracks[1].solo # 0

\* An out-of-range select_track, below the range, after track 1 was selected.
C19_WitnessSelect ==
    /\ C19_OutOfRangeCall(out)
    /\ out.key = "select_track"
    /\ out.val = -1
    /\ g_selected_track = 1

\* C20, as stated: after a record_seconds call with s seconds the recording
\* limit is max(10, min(s, 300)), for s below 10 and above 300 too.
C20_RecordSecondsClamped ==
    [][ \A secs \in {9, 10, 300, 301} :
          RecordSeconds(secs) =>
            g_record_seconds' =
                Max(RECORD_SECONDS_MIN, Min(secs, MAX_RECORD_SECONDS))
      ]_vars

\* C21: while loaded the tempo is in 20..300 and samples_per_beat is
\* positive and is the whole number of samples of one beat at that tempo
\* (44100 * 60 / tempo, fraction dropped); a tempo call stores its value
\* brought to the nearest bound of 20..300.
C21_TempoInRange ==
    /\ [](loaded =>
            /\ g_tempo_bpm >= TEMPO_MIN /\ g_tempo_bpm <= TEMPO_MAX
            /\ g_samples_per_beat > 0
            /\ g_samples_per_beat = CDiv(SAMPLE_RATE * 60, g_tempo_bpm))
    /\ [][ (out'.call = "control" /\ "key" \in DOMAIN out'
            /\ out'.key = "tempo") =>
             g_tempo_bpm' = Max(TEMPO_MIN, Min(out'.val, TEMPO_MAX))
       ]_vars

\* A tempo call above the range, brought down to 300.
C21_Witness ==
    /\ loaded
    /\ out.call = "control" /\ "key" \in DOMAIN out
    /\ out.key = "tempo" /\ out.val = 301
    /\ g_tempo_bpm = TEMPO_MAX /\ g_samples_per_beat = 8820

\* A tempo call of 0, brought up to 20.
C21_WitnessLow ==
    /\ loaded
    /\ out.call = "control" /\ "key" \in DOMAIN out
    /\ out.key = "tempo" /\ out.val = 0
    /\ g_tempo_bpm = TEMPO_MIN /\ g_samples_per_beat = 132300

\* The call recorded in o is a load_patch with an index inside the catalogue
\* that fails in the state before it: the selected track has no chain
\* instance and none can be created, or the chain does not list the patch.
C22_LoadFails(o) ==
    /\ o.call = "control" /\ "key" \in DOMAIN o
    /\ o.key = "load_patch"
    /\ o.val[1] >= 0 /\ o.val[1] < Len(g_patches)
    /\ \/ ~g_tracks[g_selected_track].chain_instance /\ ~o.val[2].attach
       \/ o.val[2].found < 0

\* C22, as stated: a load_patch call that fails leaves the selected track's
\* patch name, patch path and loaded patch index as they were, and records
\* a non-empty last error.
C22_FailedLoadKeepsPatch ==
    [][ C22_LoadFails(out') =>
          /\ g_tracks'[g_selected_track].patch_name =
                g_tracks[g_selected_track].patch_name
          /\ g_tracks'[g_selected_track].patch_path =
                g_tracks[g_selected_track].patch_path
          /\ g_tracks'[g_selected_track].chain_patch_idx =
                g_tracks[g_selected_track].chain_patch_idx
          /\ g_last_error' # ""
      ]_vars

\* C23, as stated: a recorded last error stays non-empty through every call
\* but clear_error.
C23_ErrorStaysUntilCleared ==
    [][ (g_last_error # ""
         /\ ~(out'.call = "control" /\ "key" \in DOMAIN out'
              /\ out'.key = "clear_error")) =>
          g_last_error' # ""
      ]_vars

\* C24, as stated: every step that loads the module ends with the transport
\* stopped, the playhead, the count-in counter and the count-in total 0,
\* the metronome and the count-in disabled, tempo 120, no track soloed and
\* any_solo 0.
C24_LoadResetsTransport ==
    [][ (~loaded /\ loaded') =>
          /\ g_transport' = "STOPPED"
          /\ g_playhead' = 0
          /\ g_countin_counter' = 0
          /\ g_countin_total_samples' = 0
          /\ g_metronome_enabled' = 0
          /\ g_countin_enabled' = 0
          /\ g_tempo_bpm' = TEMPO_DEFAULT
          /\ \A t \in Tracks : g_tracks'[t].solo = 0
          /\ g_any_solo' = 0
      ]_vars

\* C25: the record command that takes Stopped to CountIn leaves the playhead
\* where it is and, with phase = playhead mod samples_per_beat, sets the
\* counter to 0 when phase = 0 and to -(samples_per_beat - phase) otherwise,
\* and the total to 4 * samples_per_beat; a block rendered during the
\* lead-in is silent up to the sample at which the counter reaches 0, which
\* carries the first click, so that -counter samples of lead-in remain.
C25_CountInInitialisation ==
    [][ /\ (Transport("record") /\ g_transport = "STOPPED"
            /\ g_transport' = "COUNTIN") =>
              LET phase == g_playhead % g_samples_per_beat
              IN /\ g_playhead' = g_playhead
                 /\ g_countin_counter' =
                       IF phase = 0 THEN 0 ELSE -(g_samples_per_beat - phase)
                 /\ -g_countin_counter' =
                       (g_samples_per_beat - phase) % g_samples_per_beat
                 /\ g_countin_total_samples' = 4 * g_samples_per_beat
        /\ \A frames \in HostFrames :
             (RenderBlock(frames, 1) /\ g_transport = "COUNTIN"
              /\ g_countin_counter <= 0) =>
                /\ \A n \in 0 .. (frames - 1) :
                      /\ n < -g_countin_counter => out'.click[n] = -1
                      /\ n = -g_countin_counter => out'.click[n] = 0
                /\ g_countin_counter' = g_countin_counter + frames
                /\ g_playhead' = g_playhead
      ]_vars

\* C25 witness: a count-in that began off the beat has rendered its lead-in
\* and the first click begins inside the block just rendered.
C25_Witness ==
    /\ IsRender /\ out.transport = "COUNTIN" /\ g_transport = "COUNTIN"
    /\ g_playhead % g_samples_per_beat # 0
    /\ \E n \in 1 .. (out.frames - 1) :
          /\ out.click[n - 1] = -1
          /\ out.click[n] = 0
          /\ g_countin_counter = out.frames - n

\* C25 witness of the transition: a count-in just begun off the beat.
C25_WitnessStart ==
    /\ g_transport = "COUNTIN"
    /\ log = "Count-in started (4 beats)"
    /\ g_playhead % g_samples_per_beat # 0
    /\ g_countin_counter =
          -(g_samples_per_beat - (g_playhead % g_samples_per_beat))

\* C26: a count-in during which render_block keeps being called and no
\* control call is made ends in Recording.  It lasts the lead-in and four
\* beats: the counter runs from -lead to the total, 4 * samples_per_beat,
\* one per rendered sample, and the render call in which the counter would
\* pass the total is the one that makes the transport Recording.
C26_CountInTerminates ==
    /\ (g_transport = "COUNTIN") ~> (g_transport = "RECORDING")
    /\ [](g_transport = "COUNTIN" =>
            LET phase == g_playhead % g_samples_per_beat
                lead == (g_samples_per_beat - phase) % g_samples_per_beat
            IN /\ g_countin_total_samples = 4 * g_samples_per_beat
               /\ g_countin_counter >= -lead
               /\ g_countin_counter <= g_countin_total_samples)
    /\ [][ \A frames \in HostFrames :
             (RenderBlock(frames, 1) /\ g_transport = "COUNTIN") =>
                /\ (g_transport' = "RECORDING") <=>
                      (g_countin_counter + frames > g_countin_total_samples)
                /\ g_transport' \in {"COUNTIN", "RECORDING"}
                /\ CountInBlock(frames)
                /\ g_transport' = "COUNTIN" =>
                      /\ g_countin_counter' = g_countin_counter + frames
                      /\ g_countin_total_samples' = g_countin_total_samples
       ]_vars

\* C26 witness: a count-in begun off the beat at tempo 300 has ended in a
\* render call.
C26_Witness ==
    /\ IsRender /\ out.transport = "COUNTIN" /\ g_transport = "RECORDING"
    /\ out.playhead % g_samples_per_beat # 0
    /\ g_tempo_bpm = TEMPO_MAX
    /\ g_countin_counter = 0 /\ g_countin_total_samples = 0

\* C27: in a count-in at a fixed tempo without control calls, the samples
\* rendered as count-in that begin a click are exactly those at which the
\* counter is 0, 1, 2 or 3 times samples_per_beat, and from the first of
\* them on every sample carries the click phase counter mod
\* samples_per_beat: four onsets, samples_per_beat samples apart, the
\* count-in ending where a fifth would begin.
C27_FourCountInClicks ==
    [][ \A frames \in HostFrames :
          (RenderBlock(frames, 1) /\ g_transport = "COUNTIN") =>
            LET c == g_countin_counter
                spb == g_samples_per_beat
                k == Min(frames, Max(0, g_countin_total_samples - c))
            IN \A n \in 0 .. (frames - 1) :
                 n < k =>
                   /\ (out'.click[n] = 0) <=>
                         (c + n \in {0, spb, 2 * spb, 3 * spb})
                   /\ (c + n >= 0 /\ (c + n) % spb < CLICK_SAMPLES) =>
                         out'.click[n] = (c + n) % spb
                   /\ c + n < 4 * spb
      ]_vars

\* C27 witness: the fourth click of a count-in begun off the beat begins in
\* the block just rendered.
C27_Witness ==
    /\ IsRender /\ out.transport = "COUNTIN" /\ g_transport = "COUNTIN"
    /\ g_playhead % g_samples_per_beat # 0
    /\ \E n \in 0 .. (out.frames - 1) :
          /\ out.click[n] = 0
          /\ g_countin_counter - out.frames + n = 3 * g_samples_per_beat

\* C28: a record command while Recording makes the transport Playing and
\* leaves the playhead and every track as they are, armed tracks or not;
\* while Playing with a track armed it makes the transport Recording with
\* the playhead unchanged, count-in enabled or not; while Stopped with the
\* count-in disabled and a track armed it makes the transport Recording.
C28_RecordOutsideCountIn ==
    [][ Transport("record") =>
          /\ g_transport = "RECORDING" =>
                /\ g_transport' = "PLAYING"
                /\ UNCHANGED << g_playhead, g_tracks >>
          /\ (g_transport = "PLAYING" /\ any_track_armed(State)) =>
                /\ g_transport' = "RECORDING"
                /\ UNCHANGED << g_playhead, g_tracks >>
          /\ (g_transport = "STOPPED" /\ g_countin_enabled = 0
              /\ any_track_armed(State)) =>
                /\ g_transport' = "RECORDING"
                /\ UNCHANGED << g_playhead, g_tracks >>
      ]_vars

\* C28 witness: a record command has ended a recording that has material.
C28_Witness ==
    /\ g_transport = "PLAYING"
    /\ log = "Stopped recording"
    /\ g_playhead > 0
    /\ \E t \in Tracks : g_tracks[t].armed # 0 /\ g_tracks[t].length > 0

\* C28 witness of the punch-in: a record command while Playing, with the
\* count-in enabled, has begun recording in the middle of the tape.
C28_WitnessPunchIn ==
    /\ g_transport = "RECORDING"
    /\ log = "Recording started (punch-in)"
    /\ g_countin_enabled # 0
    /\ g_playhead > 0

\* C28 witness of the direct start: a record command while Stopped, with
\* the count-in disabled, has begun recording.
C28_WitnessDirect ==
    /\ g_transport = "RECORDING"
    /\ log = "Recording started (punch-in)"
    /\ g_countin_enabled = 0
    /\ g_playhead = 0

\* C29: a render call plays a track back (reads its buffer into the mix)
\* only if the transport is Playing or Recording when the call begins, the
\* track has length > 0, and the track is not armed while the transport is
\* Recording.
C29_PlaybackOnlyWhenRolling ==
    [][ \A frames \in HostFrames :
          RenderBlock(frames, 1) =>
            \A t \in Tracks :
               out'.playback[t] # << >> =>
                  /\ g_transport \in {"PLAYING", "RECORDING"}
                  /\ g_tracks[t].length > 0
                  /\ ~(g_transport = "RECORDING" /\ g_tracks[t].armed # 0)
                  /\ \A i \in 1 .. Len(out'.playback[t]) :
                        out'.playback[t][i] < g_tracks[t].length
      ]_vars

\* C29 witness: a block rendered while Recording with two tracks that hold
\* material at the playhead; the armed one is not played back, the other is.
C29_Witness ==
    /\ IsRender /\ out.transport = "RECORDING"
    /\ g_tracks[0].armed # 0 /\ g_tracks[0].length > 2 * out.playhead
    /\ g_tracks[1].armed = 0 /\ g_tracks[1].length > 2 * out.playhead
    /\ out.playback[0] = << >>
    /\ out.playback[1] # << >>

\* C29 witness of the count-in: a block rendered during a count-in over a
\* recorded track plays nothing back.
C29_WitnessCountIn ==
    /\ IsRender /\ out.transport = "COUNTIN"
    /\ \E t \in Tracks : g_tracks[t].armed = 0
                         /\ g_tracks[t].length > 2 * out.playhead
    /\ \A t \in Tracks : out.playback[t] = << >>

\* C29 witness of Stopped: a block rendered while Stopped over a recorded
\* track plays nothing back.
C29_WitnessStopped ==
    /\ IsRender /\ out.transport = "STOPPED"
    /\ \E t \in Tracks : g_tracks[t].length > 2 * out.playhead
    /\ \A t \in Tracks : out.playback[t] = << >>

\* C30: whatever the transport state, a render call mixes a track's live
\* block, with the track's level and pan, exactly when the track is not
\* muted and not left out by a solo, has monitoring set and holds a chain
\* instance with a patch loaded (chain_patch_idx >= 0); being recorded or
\* played back in the same call makes no difference.
C30_MonitorIndependentOfTransport ==
    [][ \A frames \in HostFrames :
          RenderBlock(frames, 1) =>
            \A t \in Tracks :
               /\ (t \in out'.monitor) <=>
                     /\ g_tracks[t].muted = 0
                     /\ (g_any_solo = 0 \/ g_tracks[t].solo # 0)
                     /\ g_tracks[t].monitoring # 0
                     /\ g_tracks[t].chain_instance
                     /\ g_tracks[t].chain_patch_idx >= 0
               /\ (t \in out'.monitor) =>
                     out'.monitor_mix[t] =
                        MixPair(g_tracks[t], LiveSample(1, t, 0),
                                LiveSample(1, t, 1))
               /\ (t \notin out'.monitor) => out'.monitor_mix[t] = << >>
      ]_vars

\* C30 witness: track 0 is monitored in a block in which it is recorded.
C30_Witness ==
    /\ IsRender /\ out.transport = "RECORDING"
    /\ g_tracks[0].armed # 0 /\ g_tracks[0].length > 0
    /\ 0 \in out.monitor

\* C30 witness of playback: track 0 is monitored in a block in which it is
\* played back.
C30_WitnessPlayback ==
    /\ IsRender /\ out.transport = "PLAYING"
    /\ out.playback[0] # << >>
    /\ 0 \in out.monitor

\* C30 witness of Stopped and CountIn: track 0 is monitored in a block
\* rendered while stopped, and in one rendered during a count-in.
C30_WitnessStopped ==
    IsRender /\ out.transport = "STOPPED" /\ 0 \in out.monitor

C30_WitnessCountIn ==
    IsRender /\ out.transport = "COUNTIN" /\ 0 \in out.monitor

\* C30 witness of the missing patch: tracks with monitoring set are not
\* monitored, one with a chain instance that never had a patch (3), one
\* whose patch was cleared (0).
C30_WitnessNoPatch ==
    /\ IsRender
    /\ g_tracks[3].monitoring # 0 /\ g_tracks[3].chain_instance
    /\ g_tracks[3].chain_patch_idx < 0
    /\ g_tracks[0].monitoring # 0 /\ g_tracks[0].muted = 0
    /\ g_tracks[0].chain_instance /\ g_tracks[0].chain_patch_idx < 0
    /\ out.monitor = {}

\* C31: with capacity C = record_seconds * 44100 * 2, a render call in
\* Recording writes, for every armed track, the frames of its live block
\* whose stereo position p satisfies p + 1 < C, the last frame of the
\* capacity (positions C - 2 and C - 1) included, leaves the later frames of
\* the block unwritten, and changes no sample at a position >= C.
C31_CaptureEdge ==
    [][ \A frames \in HostFrames :
          (RenderBlock(frames, 1) /\ g_transport = "RECORDING") =>
            LET C == g_record_seconds * SAMPLE_RATE * NUM_CHANNELS
            IN \A t \in Tracks :
                 g_tracks[t].armed # 0 =>
                   /\ \A i \in 0 .. (frames - 1) :
                        LET p == NUM_CHANNELS * (g_playhead + i)
                        IN IF p + 1 < C
                           THEN /\ BufferAt(g_tracks'[t].buffer, p) =
                                      LiveSample(1, t, 2 * i)
                                /\ BufferAt(g_tracks'[t].buffer, p + 1) =
                                      LiveSample(1, t, 2 * i + 1)
                           ELSE /\ BufferAt(g_tracks'[t].buffer, p) =
                                      BufferAt(g_tracks[t].buffer, p)
                                /\ BufferAt(g_tracks'[t].buffer, p + 1) =
                                      BufferAt(g_tracks[t].buffer, p + 1)
                   /\ \A p \in DOMAIN g_tracks'[t].buffer
                                  \cup DOMAIN g_tracks[t].buffer :
                        p >= C => BufferAt(g_tracks'[t].buffer, p) =
                                     BufferAt(g_tracks[t].buffer, p)
      ]_vars

\* C31 witness: a block that began below the capacity and ended above it
\* has written the last frame of the capacity and nothing beyond.
C31_Witness ==
    LET C == g_record_seconds * SAMPLE_RATE * NUM_CHANNELS
    IN /\ IsRender /\ out.transport = "RECORDING"
       /\ NUM_CHANNELS * out.playhead < C - 2
       /\ NUM_CHANNELS * (out.playhead + out.frames) > C
       /\ g_tracks[0].armed # 0
       /\ BufferAt(g_tracks[0].buffer, C - 2) =
             LiveSample(1, 0, C - 2 - NUM_CHANNELS * out.playhead)
       /\ BufferAt(g_tracks[0].buffer, C - 1) =
             LiveSample(1, 0, C - 1 - NUM_CHANNELS * out.playhead)
       /\ BufferAt(g_tracks[0].buffer, C) = 0
       /\ BufferAt(g_tracks[0].buffer, C + 1) = 0

\* The frames of track t at timeline positions P .. P + frames - 1 hold
\* recorded material.
C32_Recorded(t, P, frames) ==
    \A j \in 0 .. (NUM_CHANNELS * frames - 1) :
        BufferAt(g_tracks[t].buffer, NUM_CHANNELS * P + j) # 0

\* C32: a render call in Recording leaves the live block of the call in the
\* armed track's buffer from stereo position 2 * playhead, with the length
\* at least 2 * (playhead + frames); no other step changes a buffer; and a
\* render call in Playing over recorded material, with the track at level
\* 1 and pan 0, not muted, no solo, nothing monitored and the metronome
\* off, reads for frame n the samples at 2 * (playhead + n), which are the
\* frame recorded at timeline position playhead + n, mixes them at gain 1
\* (the first frame of the mix is that frame), and adds nothing else to
\* the block.
C32_RecordPlayRoundTrip ==
    [][ /\ \A frames \in HostFrames :
             (RenderBlock(frames, LiveAt(g_playhead))
              /\ g_transport = "RECORDING" /\ g_tracks[0].armed # 0) =>
                /\ \A j \in 0 .. (NUM_CHANNELS * frames - 1) :
                      BufferAt(g_tracks'[0].buffer,
                               NUM_CHANNELS * g_playhead + j)
                         = LiveSample(LiveAt(g_playhead), 0, j)
                /\ g_tracks'[0].length >= NUM_CHANNELS * (g_playhead + frames)
                /\ g_playhead' = g_playhead + frames
        /\ ~(IsRender' /\ g_transport = "RECORDING") =>
              \A t \in Tracks : g_tracks'[t].buffer = g_tracks[t].buffer
        /\ \A frames \in HostFrames :
             (RenderBlock(frames, LiveAt(g_playhead))
              /\ g_transport = "PLAYING"
              /\ C32_Recorded(0, g_playhead, frames)
              /\ g_tracks[0].level = 1000 /\ g_tracks[0].pan = 0
              /\ g_tracks[0].muted = 0 /\ g_any_solo = 0
              /\ g_metronome_enabled = 0
              /\ \A t \in Tracks : g_tracks[t].monitoring = 0) =>
                /\ out'.playback[0] =
                      [i \in 1 .. frames |->
                          NUM_CHANNELS * (g_playhead + i - 1)]
                /\ \A n \in 0 .. (frames - 1) :
                      << BufferAt(g_tracks[0].buffer,
                                  out'.playback[0][n + 1]),
                         BufferAt(g_tracks[0].buffer,
                                  out'.playback[0][n + 1] + 1) >>
                         = << LiveSample(LiveAt(g_playhead), 0, 2 * n),
                              LiveSample(LiveAt(g_playhead), 0, 2 * n + 1) >>
                /\ out'.playback_mix[0] =
                      << LiveSample(LiveAt(g_playhead), 0, 0),
                         LiveSample(LiveAt(g_playhead), 0, 1) >>
                /\ \A t \in Tracks \ {0} : out'.playback[t] = << >>
                /\ out'.monitor = {}
                /\ \A n \in 0 .. (frames - 1) : out'.click[n] = -1
                /\ g_playhead' = g_playhead + frames
      ]_vars

\* C32 witness: the second of two blocks recorded from bar 1 has been
\* played back, after the first, which held another input.
C32_Witness ==
    /\ IsRender /\ out.transport = "PLAYING"
    /\ out.playhead > FRAMES_PER_BLOCK
    /\ out.playhead % g_samples_per_beat = FRAMES_PER_BLOCK
    /\ g_tracks[0].level = 1000 /\ g_tracks[0].monitoring = 0
    /\ C32_Recorded(0, out.playhead - FRAMES_PER_BLOCK, 2 * FRAMES_PER_BLOCK)
    /\ LiveAt(out.playhead) # LiveAt(out.playhead - FRAMES_PER_BLOCK)
    /\ out.playback_mix[0] = << LiveSample(LiveAt(out.playhead), 0, 0),
                                LiveSample(LiveAt(out.playhead), 0, 1) >>
    /\ out.monitor = {}

\* C33: a render call at playhead P of f frames changes, in every track's
\* buffer, only positions in [2P, 2(P + f)), and decreases no track's
\* length: a punch-in over a longer take keeps the material before and
\* after the block and keeps the length.
C33_PunchInFrame ==
    [][ \A frames \in HostFrames :
          RenderBlock(frames, LiveAt(g_playhead)) =>
             \A t \in Tracks :
                /\ \A p \in DOMAIN g_tracks[t].buffer
                            \cup DOMAIN g_tracks'[t].buffer :
                      (p < NUM_CHANNELS * g_playhead
                       \/ p >= NUM_CHANNELS * (g_playhead + frames)) =>
                         BufferAt(g_tracks'[t].buffer, p)
                            = BufferAt(g_tracks[t].buffer, p)
                /\ g_tracks'[t].length >= g_tracks[t].length
      ]_vars

\* C33 witness: a block has been recorded at the start of the tape into a
\* take that reaches past bar 1; the take keeps its length and the
\* material of bar 1.
C33_Witness ==
    /\ IsRender /\ out.transport = "RECORDING" /\ out.playhead = 0
    /\ g_tracks[0].armed # 0
    /\ BufferAt(g_tracks[0].buffer, 0) = LiveSample(LiveAt(0), 0, 0)
    /\ g_tracks[0].length > NUM_CHANNELS * 4 * g_samples_per_beat
    /\ BufferAt(g_tracks[0].buffer, NUM_CHANNELS * 4 * g_samples_per_beat)
          = LiveSample(LiveAt(4 * g_samples_per_beat), 0, 0)

\* C34, as stated: a jump_bars call with n moves the playhead by
\* n * 4 * samples_per_beat frames, and to 0 where that is below 0; a
\* playhead on a beat of the metronome is on a beat after the call.
C34_JumpBarsWholeBeats ==
    [][ \A bars \in {-2, -1, 1, 3} :
          JumpBars(bars) =>
            /\ g_playhead' =
                  Max(0, g_playhead + bars * BEATS_PER_BAR * g_samples_per_beat)
            /\ (g_playhead % g_samples_per_beat = 0) =>
                  (g_playhead' % g_samples_per_beat = 0)
      ]_vars

\* C35, as stated: the countin_beats query answers 0 when the transport is
\* not CountIn and, in CountIn, the ceiling of (total - counter) /
\* samples_per_beat, which is in 1..4.
C35_CountinBeatsQuery ==
    (out.call = "get_param" /\ out.key = "countin_beats") =>
        /\ g_transport # "COUNTIN" => out.val = 0
        /\ g_transport = "COUNTIN" =>
              /\ out.val * g_samples_per_beat
                    >= g_countin_total_samples - g_countin_counter
              /\ (out.val - 1) * g_samples_per_beat
                    < g_countin_total_samples - g_countin_counter
              /\ out.val \in 1 .. COUNTIN_BEATS

\* What holds of the query: the answer is 0 outside CountIn and the ceiling
\* in CountIn, 0 and 5 included.
C35_Ceiling ==
    (out.call = "get_param" /\ out.key = "countin_beats") =>
        /\ g_transport # "COUNTIN" => out.val = 0
        /\ g_transport = "COUNTIN" =>
              /\ out.val * g_samples_per_beat
                    >= g_countin_total_samples - g_countin_counter
              /\ (out.val - 1) * g_samples_per_beat
                    < g_countin_total_samples - g_countin_counter


\* C36, as stated: a record command given in CountIn leaves the transport
\* in CountIn, and every step from CountIn to Recording is a render call
\* that ends with the playhead on a beat.
C36_RecordKeepsCountIn ==
    [][ /\ (Transport("record") /\ g_transport = "COUNTIN") =>
              g_transport' = "COUNTIN"
        /\ (g_transport = "COUNTIN" /\ g_transport' = "RECORDING") =>
              /\ IsRender'
              /\ g_playhead' % g_samples_per_beat' = 0
      ]_vars

\* C37, as stated: in every state any_solo is set exactly when some track
\* has its solo flag set.
C37_AnySoloCached ==
    (g_any_solo # 0) <=> (\E t \in Tracks : g_tracks[t].solo # 0)

\* C38: the playhead is never negative; a jump back lands at 0 when it would
\* pass the start, and no call but a jump back or goto_start (and goto_end,
\* to the end of the selected take) moves the playhead back.
C38_PlayheadNonNegative ==
    /\ [](g_playhead >= 0)
    /\ [][ \A bars \in {-2, -1, 1} :
             SetParamCall("jump_bars", bars) =>
                g_playhead' =
                   Max(0, g_playhead
                          + bars * CDiv(SAMPLE_RATE * 60 * BEATS_PER_BAR,
                                        g_tempo_bpm))
         ]_vars
    /\ [][ IsRender' => g_playhead' >= g_playhead ]_vars

\* C38 witness: a jump of one bar back made while playing has ended at the
\* start of the tape.
C38_Witness ==
    /\ out.call = "control" /\ "key" \in DOMAIN out
    /\ out.key = "jump_bars" /\ out.val = -1
    /\ g_transport = "PLAYING"
    /\ g_playhead = 0

\* C38 witness: a count-in begun off the beat has ended with the playhead
\* moved forward to the beat.
C38_WitnessSnap ==
    /\ IsRender /\ out.transport = "COUNTIN" /\ g_transport = "RECORDING"
    /\ out.playhead = FRAMES_PER_BLOCK
    /\ g_playhead = g_samples_per_beat

\* C39: loop_start and loop_end are 0 in every state; so, with loop_enabled
\* set or not, a render call in Playing or Recording moves the playhead
\* forward by the frames of the call, never back to loop_start, and a track
\* is read at 2 * playhead onward, below its length only: at the length the
\* reading stops and does not begin again.
C39_LoopRegionNeverSet ==
    /\ [](g_loop_start = 0 /\ g_loop_end = 0)
    /\ [][ (IsRender' /\ g_transport \in {"PLAYING", "RECORDING"}) =>
             /\ g_playhead' = g_playhead + out'.frames
             /\ \A t \in Tracks :
                   LET r == out'.playback[t]
                   IN /\ Len(r) <= out'.frames
                      /\ \A i \in 1 .. Len(r) :
                            /\ r[i] = NUM_CHANNELS * (g_playhead + i - 1)
                            /\ r[i] < g_tracks[t].length
         ]_vars

\* C39 witness: with loop_enabled set, a block played from the end of a
\* take of one block reads nothing and the playhead moves on past the end.
C39_Witness ==
    /\ IsRender /\ out.transport = "PLAYING"
    /\ g_loop_enabled = 1
    /\ g_tracks[0].length = NUM_CHANNELS * FRAMES_PER_BLOCK
    /\ out.playhead = FRAMES_PER_BLOCK
    /\ out.playback[0] = << >>
    /\ g_playhead = 2 * FRAMES_PER_BLOCK

\* C40: a render call changes no track's level, pan, muted, solo, armed or
\* monitoring flag, nor the selected track, the tempo, samples_per_beat,
\* the loop settings or the MIDI routing mode; it changes the buffer or the
\* length only of tracks that were armed with the transport Recording when
\* the call began; and it changes the transport only from CountIn to
\* Recording.
C40_RenderFrame ==
    [][ IsRender' =>
          /\ \A t \in Tracks :
                /\ g_tracks'[t].level = g_tracks[t].level
                /\ g_tracks'[t].pan = g_tracks[t].pan
                /\ g_tracks'[t].muted = g_tracks[t].muted
                /\ g_tracks'[t].solo = g_tracks[t].solo
                /\ g_tracks'[t].armed = g_tracks[t].armed
                /\ g_tracks'[t].monitoring = g_tracks[t].monitoring
                /\ (g_tracks'[t].buffer # g_tracks[t].buffer
                    \/ g_tracks'[t].length # g_tracks[t].length) =>
                      (g_transport = "RECORDING" /\ g_tracks[t].armed # 0)
          /\ g_selected_track' = g_selected_track
          /\ g_tempo_bpm' = g_tempo_bpm
          /\ g_samples_per_beat' = g_samples_per_beat
          /\ g_loop_enabled' = g_loop_enabled
          /\ g_loop_start' = g_loop_start
          /\ g_loop_end' = g_loop_end
          /\ g_midi_routing_mode' = g_midi_routing_mode
          /\ g_transport' # g_transport =>
                (g_transport = "COUNTIN" /\ g_transport' = "RECORDING")
      ]_vars

\* C40 witness: the render call that completes a count-in at tempo 300 has
\* taken the transport to Recording and has captured nothing into the armed
\* track.
C40_Witness ==
    /\ IsRender /\ out.transport = "COUNTIN" /\ g_transport = "RECORDING"
    /\ g_tempo_bpm = TEMPO_MAX
    /\ g_tracks[0].armed # 0
    /\ g_tracks[0].length = 0

\* C40 witness: a render call in Recording has captured into the armed
\* track and into no other.
C40_WitnessCapture ==
    /\ IsRender /\ out.transport = "RECORDING"
    /\ g_tracks[0].armed # 0
    /\ g_tracks[0].length = NUM_CHANNELS * (out.playhead + out.frames)
    /\ \A t \in Tracks \ {0} : g_tracks[t].length = 0
=============================================================================
